---- MODULE Spec2Model ----
\* A model of the avixer AVI container library (package avi): the seekable
\* memory buffer, the muxer (Writer) and the demuxer (Reader), at byte level.
EXTENDS Integers, Sequences, FiniteSets, TLC

VARIABLES
    sb,       \* a SeekableBuffer under direct use: [buf, pos]
    sbLast,   \* the last call made on sb, with the state it was made in
    wr,       \* the Writer: [w, streams, packets]
    sink,     \* the SeekableBuffer handed to Writer.Create: [buf, pos]
    wLast,    \* the last Writer call: [op, err, ret, panic, finalizes]
    rd,       \* the Reader
    rLast,    \* the last Reader call: [op, err, position, data, entryPos, panic]
    pkts      \* what the last ReadAllPackets returned

vars == <<sb, sbLast, wr, sink, wLast, rd, rLast, pkts>>

bufVars == <<sb, sbLast>>

writerVars == <<wr, sink, wLast>>

readerVars == <<rd, rLast, pkts>>

\* ------------------------------------------------------------------ bounds
MaxBufLen == 4

MaxStreams == 2

MaxPackets == 2

MaxFinalize == 2

\* Cursor positions from Far on are not told apart.
Far == 1073741824

\* ------------------------------------------------------------------ helpers
Min(a, b) == IF a < b THEN a ELSE b

Zeros(n) == [i \in 1..n |-> 0]

\* io.SeekStart, io.SeekCurrent, io.SeekEnd
SeekStart == 0

SeekCurrent == 1

SeekEnd == 2

\* ------------------------------------------------------ SeekableBuffer
NewSeekableBuffer == [buf |-> <<>>, pos |-> 0]

\* A Write that drops the bytes beyond the written span.
SeekableBuffer_Write_Truncating(b, p) ==
    LET currentLen == Len(b.buf)
        newBuf == IF b.pos < currentLen
                    THEN SubSeq(b.buf, 1, b.pos) \o p
                    ELSE b.buf \o p
    IN [sb |-> [buf |-> newBuf, pos |-> b.pos + Len(p)], n |-> Len(p), err |-> "nil"]

\* buffer.go Write: overwrite in place before the end, append at or past it.
SeekableBuffer_Write(b, p) ==
    LET currentLen == Len(b.buf)
        n == Len(p)
        endPos == b.pos + n
        newBuf == IF b.pos < currentLen
                    THEN SubSeq(b.buf, 1, b.pos) \o p \o
                         (IF endPos < currentLen
                            THEN SubSeq(b.buf, endPos + 1, currentLen)
                            ELSE <<>>)
                    ELSE b.buf \o p
    IN [sb |-> [buf |-> newBuf, pos |-> b.pos + n], n |-> n, err |-> "nil"]

\* A Seek that moves the cursor past the end without padding.
SeekableBuffer_Seek_NoPad(b, offset, whence) ==
    LET newPos == CASE whence = SeekStart -> offset
                    [] whence = SeekCurrent -> b.pos + offset
                    [] whence = SeekEnd -> Len(b.buf) + offset
                    [] OTHER -> 0
    IN IF whence \notin {SeekStart, SeekCurrent, SeekEnd}
         THEN [sb |-> b, ret |-> 0, err |-> "invalid seek whence"]
       ELSE IF newPos < 0
         THEN [sb |-> b, ret |-> 0, err |-> "seek before start of buffer"]
       ELSE [sb |-> [buf |-> b.buf, pos |-> newPos], ret |-> newPos, err |-> "nil"]

\* A Seek that accepts a negative position.
SeekableBuffer_Seek_NoNegCheck(b, offset, whence) ==
    LET newPos == CASE whence = SeekStart -> offset
                    [] whence = SeekCurrent -> b.pos + offset
                    [] whence = SeekEnd -> Len(b.buf) + offset
                    [] OTHER -> 0
        currentLen == Len(b.buf)
    IN IF whence \notin {SeekStart, SeekCurrent, SeekEnd}
         THEN [sb |-> b, ret |-> 0, err |-> "invalid seek whence"]
       ELSE [sb |-> [buf |-> IF newPos > currentLen
                               THEN b.buf \o Zeros(newPos - currentLen)
                               ELSE b.buf,
                     pos |-> newPos],
             ret |-> newPos, err |-> "nil"]

\* buffer.go Seek: three origins, negative positions rejected, gap zero-filled.
SeekableBuffer_Seek(b, offset, whence) ==
    LET newPos == CASE whence = SeekStart -> offset
                    [] whence = SeekCurrent -> b.pos + offset
                    [] whence = SeekEnd -> Len(b.buf) + offset
                    [] OTHER -> 0
        currentLen == Len(b.buf)
    IN IF whence \notin {SeekStart, SeekCurrent, SeekEnd}
         THEN [sb |-> b, ret |-> 0, err |-> "invalid seek whence"]
       ELSE IF newPos < 0
         THEN [sb |-> b, ret |-> 0, err |-> "seek before start of buffer"]
       ELSE [sb |-> [buf |-> IF newPos > currentLen
                               THEN b.buf \o Zeros(newPos - currentLen)
                               ELSE b.buf,
                     pos |-> newPos],
             ret |-> newPos, err |-> "nil"]

\* A Read that advances the cursor by the requested length.
SeekableBuffer_Read_NoClamp(b, n) ==
    IF b.pos >= Len(b.buf)
      THEN [sb |-> b, n |-> 0, err |-> "EOF", out |-> <<>>]
      ELSE LET avail == Len(b.buf) - b.pos
               cnt == IF n < avail THEN n ELSE avail
           IN [sb |-> [buf |-> b.buf, pos |-> b.pos + n], n |-> cnt,
               err |-> IF cnt < n THEN "EOF" ELSE "nil",
               out |-> SubSeq(b.buf, b.pos + 1, b.pos + cnt)]

\* buffer.go Read into a slice of length n: copies what is there, EOF when short.
SeekableBuffer_Read(b, n) ==
    LET currentLen == Len(b.buf)
        k == Min(n, currentLen - b.pos)
    IN IF b.pos >= currentLen
         THEN [sb |-> b, n |-> 0, out |-> <<>>, err |-> "EOF"]
       ELSE [sb |-> [buf |-> b.buf, pos |-> b.pos + k],
             n |-> k,
             out |-> SubSeq(b.buf, b.pos + 1, b.pos + k),
             err |-> IF k < n THEN "EOF" ELSE "nil"]

SeekableBuffer_Bytes(b) == b.buf

SeekableBuffer_Len(b) == Len(b.buf)

SeekableBuffer_Reset(b) == [buf |-> <<>>, pos |-> 0]

\* ------------------------------------------------------------ format.go
\* Four-character tags, as their ASCII bytes.
RIFFSignature == <<82, 73, 70, 70>>

AVISignature == <<65, 86, 73, 32>>

LISTSignature == <<76, 73, 83, 84>>

HDRLList == <<104, 100, 114, 108>>

STRLList == <<115, 116, 114, 108>>

MOVIList == <<109, 111, 118, 105>>

AVIHChunk == <<97, 118, 105, 104>>

STRHChunk == <<115, 116, 114, 104>>

STRFChunk == <<115, 116, 114, 102>>

IDX1Chunk == <<105, 100, 120, 49>>

STREAMTypeVideo == <<118, 105, 100, 115>>

STREAMTypeAudio == <<97, 117, 100, 115>>

\* The two-letter payload subtypes "dc", "db", "wb".
TwoCC_dc == <<100, 99>>

TwoCC_db == <<100, 98>>

TwoCC_wb == <<119, 98>>

StreamTypeVideo == "video"

StreamTypeAudio == "audio"

\* Little-endian encodings (encoding/binary). LE16 keeps the low 16 bits, as
\* the conversion to uint16 does.
LE16(v) == <<v % 256, (v \div 256) % 256>>

LE32(v) ==
    IF v >= 0
      THEN <<v % 256, (v \div 256) % 256, (v \div 65536) % 256, (v \div 16777216) % 256>>
      ELSE LET u == v + 2147483647 + 1
           IN <<u % 256, (u \div 256) % 256, (u \div 65536) % 256,
                ((u \div 16777216) % 256) + 128>>

ReadLE16(b, at) == b[at + 1] + 256 * b[at + 2]

ReadLE32(b, at) ==
    b[at + 1] + 256 * b[at + 2] + 65536 * b[at + 3] + 16777216 * b[at + 4]

\* int32 fields (BitmapInfoHeader.Width, Height): two's complement.
ReadLE32Signed(b, at) ==
    IF b[at + 4] >= 128
      THEN (b[at + 1] + 256 * b[at + 2] + 65536 * b[at + 3]
            + 16777216 * (b[at + 4] - 128)) - 2147483647 - 1
      ELSE ReadLE32(b, at)

\* ChunkHeader.Size of the 8-byte header hd. A declared size is any uint32;
\* one of 2^31 or more is held as the integer 2^32 below it (the
\* two's-complement reading of its bytes), so that uint32 arithmetic on sizes
\* wraps as in Go: 0 - 4 is the reading of 2^32 - 4.
HeaderSize(hd) == ReadLE32Signed(hd, 4)

\* format.go AlignSize: round up to the next even value; in uint32 the
\* maximum value wraps to 0.
AlignSize(size) == IF size % 2 = 1 THEN size + 1 ELSE size

\* The cursor after r.r.Seek(int64(n), io.SeekCurrent) from pos, n a uint32
\* as above. A position of Far or more is past the end of every source, and
\* all such positions are held as Far.
Forward(pos, n) == IF n < 0 \/ n >= Far - pos THEN Far ELSE pos + n

\* format.go MakeChunkID: two decimal digits of the stream index, then the
\* two-letter subtype.
MakeChunkID(streamIndex, twoCC) ==
    <<(48 + (streamIndex \div 10)) % 256, (48 + (streamIndex % 10)) % 256,
      twoCC[1], twoCC[2]>>

ChunkHeaderBytes(id, size) == id \o LE32(size)

LISTHeaderBytes(size, type) == LISTSignature \o LE32(size) \o type

\* ------------------------------------------------------------- muxer.go
\* A Writer is [w, streams, packets]: w is "nil" or "set" (the sink itself is
\* the variable sink). The write* operators return the Write calls made on
\* the sink, in order, and whether the call panicked (an index out of range).
NewMuxer == [w |-> "nil", streams |-> <<>>, packets |-> <<>>]

NoWrites == [writes |-> <<>>, panic |-> FALSE]

Emit(bytes) == [writes |-> <<bytes>>, panic |-> FALSE]

Panic == [writes |-> <<>>, panic |-> TRUE]

Then(a, b) ==
    IF a.panic THEN a ELSE [writes |-> a.writes \o b.writes, panic |-> b.panic]

IsDeclared(w, streamIndex) == streamIndex >= 0 /\ streamIndex < Len(w.streams)

calculateSTRLSize(w, streamIndex) ==
    LET stream == w.streams[streamIndex + 1]
    IN 4 + (8 + 56) +
       (IF stream.Type = StreamTypeVideo THEN 8 + 40
        ELSE IF stream.Type = StreamTypeAudio THEN 8 + 16
        ELSE 0)

RECURSIVE SumSTRL(_, _)
SumSTRL(w, n) ==
    IF n = 0 THEN 0 ELSE SumSTRL(w, n - 1) + calculateSTRLSize(w, n - 1) + 8

calculateHDRLSize(w) == 4 + (8 + 56) + SumSTRL(w, Len(w.streams))

RECURSIVE SumMOVI(_, _)
SumMOVI(packets, n) ==
    IF n = 0 THEN 0
    ELSE SumMOVI(packets, n - 1) + 8 + AlignSize(Len(packets[n].Data))

calculateMOVISize(w) == 4 + SumMOVI(w.packets, Len(w.packets))

calculateIDX1Size(w) == Len(w.packets) * 16

FirstVideo(w) ==
    LET vs == {i \in 1..Len(w.streams) : w.streams[i].Type = StreamTypeVideo}
    IN IF vs = {} THEN 0 ELSE CHOOSE i \in vs : \A j \in vs : i <= j

writeAVIHChunk(w) ==
    LET v == FirstVideo(w)
        width == IF v = 0 THEN 0 ELSE w.streams[v].Codec.Width
        height == IF v = 0 THEN 0 ELSE w.streams[v].Codec.Height
        microSecPerFrame ==
            IF v # 0 /\ w.streams[v].Codec.FPS.num > 0
              THEN (1000000 * w.streams[v].Codec.FPS.den) \div w.streams[v].Codec.FPS.num
              ELSE 0
        totalFrames ==
            Cardinality({k \in 1..Len(w.packets) :
                w.streams[w.packets[k].StreamIndex + 1].Type = StreamTypeVideo})
    IN IF \E k \in 1..Len(w.packets) : ~IsDeclared(w, w.packets[k].StreamIndex)
         THEN Panic
         ELSE Then(Emit(ChunkHeaderBytes(AVIHChunk, 56)),
                   Emit(LE32(microSecPerFrame) \o LE32(0) \o LE32(0) \o LE32(2064)
                        \o LE32(totalFrames) \o LE32(0) \o LE32(Len(w.streams))
                        \o LE32(0) \o LE32(width) \o LE32(height) \o Zeros(16)))

writeSTRHChunk(w, streamIndex) ==
    LET stream == w.streams[streamIndex + 1]
        streamType == IF stream.Type = StreamTypeVideo THEN STREAMTypeVideo
                      ELSE IF stream.Type = StreamTypeAudio THEN STREAMTypeAudio
                      ELSE Zeros(4)
        timed == stream.Type = StreamTypeVideo /\ stream.Codec.FPS.num > 0
        sampled == stream.Type = StreamTypeAudio /\ stream.Codec.SampleRate > 0
        scale == IF timed THEN 1000 ELSE 1
        rate == IF timed THEN (stream.Codec.FPS.num * 1000) \div stream.Codec.FPS.den
                ELSE IF sampled THEN stream.Codec.SampleRate
                ELSE 1
        length == Cardinality({k \in 1..Len(w.packets) :
                                  w.packets[k].StreamIndex = streamIndex})
        frame == IF stream.Type = StreamTypeVideo
                   THEN LE16(0) \o LE16(0) \o LE16(stream.Codec.Width)
                        \o LE16(stream.Codec.Height)
                   ELSE Zeros(8)
    IN Then(Emit(ChunkHeaderBytes(STRHChunk, 56)),
            Emit(streamType \o stream.Codec.FourCC \o LE32(0) \o LE16(0) \o LE16(0)
                 \o LE32(0) \o LE32(scale) \o LE32(rate) \o LE32(0) \o LE32(length)
                 \o LE32(0) \o <<255, 255, 255, 255>> \o LE32(0) \o frame))

writeVideoFormat(w, streamIndex) ==
    LET stream == w.streams[streamIndex + 1]
    IN Then(Emit(ChunkHeaderBytes(STRFChunk, 40)),
            Emit(LE32(40) \o LE32(stream.Codec.Width) \o LE32(stream.Codec.Height)
                 \o LE16(1) \o LE16(24) \o stream.Codec.FourCC \o LE32(0)
                 \o LE32(0) \o LE32(0) \o LE32(0) \o LE32(0)))

\* The WaveFormatEx structure is emitted whole: 18 bytes, under a chunk header
\* that declares 16.
writeAudioFormat(w, streamIndex) ==
    LET c == w.streams[streamIndex + 1].Codec
    IN Then(Emit(ChunkHeaderBytes(STRFChunk, 16)),
            Emit(LE16(1) \o LE16(c.Channels) \o LE32(c.SampleRate)
                 \o LE32((c.SampleRate * c.Channels * c.BitDepth) \div 8)
                 \o LE16((c.Channels * c.BitDepth) \div 8)
                 \o LE16(c.BitDepth) \o LE16(0)))

writeSTRFChunk(w, streamIndex) ==
    LET stream == w.streams[streamIndex + 1]
    IN IF stream.Type = StreamTypeVideo THEN writeVideoFormat(w, streamIndex)
       ELSE IF stream.Type = StreamTypeAudio THEN writeAudioFormat(w, streamIndex)
       ELSE NoWrites

writeSTRLList(w, streamIndex) ==
    Then(Emit(LISTHeaderBytes(calculateSTRLSize(w, streamIndex), STRLList)),
         Then(writeSTRHChunk(w, streamIndex), writeSTRFChunk(w, streamIndex)))

RECURSIVE writeSTRLLists(_, _)
writeSTRLLists(w, n) ==
    IF n = 0 THEN NoWrites
    ELSE Then(writeSTRLLists(w, n - 1), writeSTRLList(w, n - 1))

writeHDRLList(w) ==
    Then(Emit(LISTHeaderBytes(calculateHDRLSize(w), HDRLList)),
         Then(writeAVIHChunk(w), writeSTRLLists(w, Len(w.streams))))

\* A subtype choice that ignores the keyframe flag.
PacketTwoCC_NoKey(w, packet) ==
    LET type == w.streams[packet.StreamIndex + 1].Type
    IN IF type = StreamTypeVideo THEN TwoCC_dc
       ELSE IF type = StreamTypeAudio THEN TwoCC_wb
       ELSE <<>>

\* The two-letter subtype of a packet's chunk; <<>> when the stream is
\* neither video nor audio.
PacketTwoCC(w, packet) ==
    LET type == w.streams[packet.StreamIndex + 1].Type
    IN IF type = StreamTypeVideo
         THEN (IF packet.Flags = "K__" THEN TwoCC_db ELSE TwoCC_dc)
       ELSE IF type = StreamTypeAudio THEN TwoCC_wb
       ELSE <<>>

\* A writePacketData that never pads.
writePacketData_NoPad(w, packet) ==
    IF ~IsDeclared(w, packet.StreamIndex) \/ PacketTwoCC(w, packet) = <<>>
      THEN Panic
      ELSE Then(Emit(ChunkHeaderBytes(MakeChunkID(packet.StreamIndex,
                                                    PacketTwoCC(w, packet)),
                                      Len(packet.Data))),
                Emit(packet.Data))

writePacketData(w, packet) ==
    IF ~IsDeclared(w, packet.StreamIndex) \/ PacketTwoCC(w, packet) = <<>>
      THEN Panic
      ELSE Then(Emit(ChunkHeaderBytes(MakeChunkID(packet.StreamIndex,
                                                    PacketTwoCC(w, packet)),
                                      Len(packet.Data))),
                Then(Emit(packet.Data),
                     IF Len(packet.Data) % 2 = 1 THEN Emit(<<0>>) ELSE NoWrites))

RECURSIVE writePackets(_, _)
writePackets(w, n) ==
    IF n = 0 THEN NoWrites
    ELSE Then(writePackets(w, n - 1), writePacketData(w, w.packets[n]))

writeMOVIList(w) ==
    Then(Emit(LISTHeaderBytes(calculateMOVISize(w), MOVIList)),
         writePackets(w, Len(w.packets)))

\* The running offset of the n-th index entry (1-based): 4, then 8 plus the
\* aligned payload length per earlier packet.
RECURSIVE IndexOffset(_, _)
IndexOffset(packets, n) ==
    IF n = 1 THEN 4
    ELSE IndexOffset(packets, n - 1) + 8 + AlignSize(Len(packets[n - 1].Data))

RECURSIVE writeIndexEntries(_, _)
writeIndexEntries(w, n) ==
    IF n = 0 THEN NoWrites
    ELSE Then(writeIndexEntries(w, n - 1),
              IF ~IsDeclared(w, w.packets[n].StreamIndex)
                   \/ PacketTwoCC(w, w.packets[n]) = <<>>
                THEN Panic
                ELSE Emit(MakeChunkID(w.packets[n].StreamIndex,
                                      PacketTwoCC(w, w.packets[n]))
                          \o LE32(IF w.packets[n].Flags = "K__" THEN 16 ELSE 0)
                          \o LE32(IndexOffset(w.packets, n))
                          \o LE32(Len(w.packets[n].Data))))

writeIDX1Chunk(w) ==
    Then(Emit(ChunkHeaderBytes(IDX1Chunk, Len(w.packets) * 16)),
         writeIndexEntries(w, Len(w.packets)))

writeAVIFile(w) ==
    LET moviSize == calculateMOVISize(w)
        hdrlSize == calculateHDRLSize(w)
        idx1Size == calculateIDX1Size(w)
        totalSize == 4 + hdrlSize + 8 + moviSize + 8 + idx1Size
    IN Then(Emit(RIFFSignature \o LE32(totalSize) \o AVISignature),
            Then(writeHDRLList(w), Then(writeMOVIList(w), writeIDX1Chunk(w))))

\* The Write calls writes[lo..hi] made in order at the sink's cursor, each
\* checked for its error before the next is made: the sink afterwards and the
\* error that stopped the writing.
RECURSIVE WriteAll(_, _, _, _)
WriteRest(done, writes, lo, hi) ==
    IF done.err # "nil" THEN done ELSE WriteAll(done.sb, writes, lo, hi)

WriteAll(b, writes, lo, hi) ==
    IF lo > hi THEN [sb |-> b, n |-> 0, err |-> "nil"]
    ELSE IF lo = hi THEN SeekableBuffer_Write(b, writes[lo])
    ELSE WriteRest(WriteAll(b, writes, lo, (lo + hi) \div 2),
                   writes, ((lo + hi) \div 2) + 1, hi)

\* ----------------------------------------------------------- demuxer.go
\* The byte source is a bytes.Reader over data: a cursor that Seek may put
\* anywhere at or after 0, and reads that stop at the end of the data.
\* ReadFull is io.ReadFull as binary.Read uses it: n bytes at the cursor, EOF
\* when none is left, ErrUnexpectedEOF (cursor at the end) when too few are.
ReadFull(data, pos, n) ==
    IF n = 0 THEN [out |-> <<>>, pos |-> pos, err |-> "nil"]
    ELSE IF pos >= Len(data) THEN [out |-> <<>>, pos |-> pos, err |-> "EOF"]
    ELSE IF Len(data) - pos < n
      THEN [out |-> SubSeq(data, pos + 1, Len(data)), pos |-> Len(data),
            err |-> "ErrUnexpectedEOF"]
    ELSE [out |-> SubSeq(data, pos + 1, pos + n), pos |-> pos + n, err |-> "nil"]

\* A Reader is [r, data, pos, fileSize, streams, fileInfo, moviOffset,
\* indexEntries]: r is "nil" or "set", data and pos are the source and its
\* cursor, fileInfo is <<>> (nil) or <<info>>.
NewDemuxer ==
    [r |-> "nil", data |-> <<>>, pos |-> 0, fileSize |-> 0, streams |-> <<>>,
     fileInfo |-> <<>>, moviOffset |-> 0, indexEntries |-> <<>>]

\* What a parse carries along: the cursor, the streams and duration collected
\* so far, the Reader fields it assigns as it goes, and the error that ended it.
ParseStart(r) ==
    [pos |-> r.pos, streams |-> <<>>, duration |-> 0,
     moviOffset |-> r.moviOffset, indexEntries |-> r.indexEntries,
     err |-> "nil", trail |-> <<>>]

\* History: the loop named starts an iteration that reads a chunk header at
\* the cursor.
Visit(ctx, loop) == [ctx EXCEPT !.trail = Append(@, <<loop, ctx.pos>>)]

Fail(ctx, op) == [ctx EXCEPT !.err = op]

ZeroCodec ==
    [Name |-> <<>>, FourCC |-> Zeros(4), Type |-> "", Width |-> 0, Height |-> 0,
     FPS |-> [num |-> 0, den |-> 1], Channels |-> 0, SampleRate |-> 0,
     BitDepth |-> 0]

ZeroIndexEntry == [ChunkID |-> Zeros(4), Flags |-> 0, Offset |-> 0, Size |-> 0]

IsVideoStream(streamType) == streamType = STREAMTypeVideo

IsAudioStream(streamType) == streamType = STREAMTypeAudio

\* Each parse function is split where it binds a result: the function makes
\* the read, and a continuation (named ...From, ...Step, ...Next) acts on it.
SkipTo(ctx, pos) == [ctx EXCEPT !.pos = pos]

\* parseAVIHChunk: Duration is kept in microseconds.
AVIHFrom(size, ctx, rd1) ==
    IF rd1.err # "nil" THEN Fail(SkipTo(ctx, rd1.pos), "read avih")
    ELSE [ctx EXCEPT
            !.pos = IF size < 0 \/ size > 56
                      THEN Forward(rd1.pos, size - 56) ELSE rd1.pos,
            !.duration = IF ReadLE32(rd1.out, 0) > 0
                           THEN ReadLE32(rd1.out, 16) * ReadLE32(rd1.out, 0)
                           ELSE ctx.duration]

parseAVIHChunk(data, size, ctx) == AVIHFrom(size, ctx, ReadFull(data, ctx.pos, 56))

\* The stream kind a stream header's type tag selects.
KindOf(type, before) ==
    IF IsVideoStream(type) THEN StreamTypeVideo
    ELSE IF IsAudioStream(type) THEN StreamTypeAudio
    ELSE before

\* parseSTRHChunk returns [ctx, stream].
STRHFrom(size, ctx, stream, rd1) ==
    IF rd1.err # "nil"
      THEN [ctx |-> Fail(SkipTo(ctx, rd1.pos), "read strh"), stream |-> stream]
      ELSE [ctx |-> SkipTo(ctx, IF size < 0 \/ size > 56
                                  THEN Forward(rd1.pos, size - 56) ELSE rd1.pos),
            stream |-> [stream EXCEPT
                !.Type = KindOf(SubSeq(rd1.out, 1, 4), stream.Type),
                !.Codec.Type = KindOf(SubSeq(rd1.out, 1, 4), stream.Codec.Type),
                !.Codec.FourCC = SubSeq(rd1.out, 5, 8),
                !.Codec.Name = LET Printable(b) == b >= 32 /\ b <= 126
                               IN SelectSeq(SubSeq(rd1.out, 5, 8), Printable),
                !.Codec.FPS =
                    IF /\ ReadLE32(rd1.out, 24) > 0
                       /\ ReadLE32(rd1.out, 20) > 0
                       /\ KindOf(SubSeq(rd1.out, 1, 4), stream.Type) = StreamTypeVideo
                      THEN [num |-> ReadLE32(rd1.out, 24), den |-> ReadLE32(rd1.out, 20)]
                      ELSE @]]

parseSTRHChunk(data, size, ctx, stream) ==
    STRHFrom(size, ctx, stream, ReadFull(data, ctx.pos, 56))

VideoFormatFrom(size, ctx, stream, rd1) ==
    IF rd1.err # "nil"
      THEN [ctx |-> Fail(SkipTo(ctx, rd1.pos), "read bitmap info"), stream |-> stream]
      ELSE [ctx |-> SkipTo(ctx, IF size < 0 \/ size > 40
                                  THEN Forward(rd1.pos, size - 40) ELSE rd1.pos),
            stream |-> [stream EXCEPT
                !.Codec.Width = ReadLE32Signed(rd1.out, 4),
                !.Codec.Height = IF ReadLE32Signed(rd1.out, 8) < 0
                                   THEN 0 - ReadLE32Signed(rd1.out, 8)
                                   ELSE ReadLE32Signed(rd1.out, 8)]]

parseVideoFormat(data, size, ctx, stream) ==
    VideoFormatFrom(size, ctx, stream, ReadFull(data, ctx.pos, 40))

\* structSize is the size of the WaveFormatEx structure read.
AudioFormatFrom(structSize, size, ctx, stream, rd1) ==
    IF rd1.err # "nil"
      THEN [ctx |-> Fail(SkipTo(ctx, rd1.pos), "read wave format"), stream |-> stream]
      ELSE [ctx |-> SkipTo(ctx, IF size < 0 \/ size > structSize
                                  THEN Forward(rd1.pos, size - structSize)
                                  ELSE rd1.pos),
            stream |-> [stream EXCEPT
                !.Codec.Channels = ReadLE16(rd1.out, 2),
                !.Codec.SampleRate = ReadLE32(rd1.out, 4),
                !.Codec.BitDepth = ReadLE16(rd1.out, 14)]]

\* parseAudioFormat reads the 18-byte WaveFormatEx structure.
parseAudioFormat(data, size, ctx, stream) ==
    AudioFormatFrom(18, size, ctx, stream, ReadFull(data, ctx.pos, 18))

parseSTRFChunk(data, size, ctx, stream) ==
    IF stream.Type = StreamTypeVideo THEN parseVideoFormat(data, size, ctx, stream)
    ELSE IF stream.Type = StreamTypeAudio THEN parseAudioFormat(data, size, ctx, stream)
    ELSE [ctx |-> SkipTo(ctx, Forward(ctx.pos, AlignSize(size))), stream |-> stream]

\* The loop of parseSTRLList, from the state cs = [ctx, stream].
RECURSIVE parseSTRLLoop(_, _, _)
STRLNext(data, endPos, next) ==
    IF next.ctx.err # "nil" THEN next ELSE parseSTRLLoop(data, endPos, next)

STRLStep(data, endPos, cs, hd) ==
    IF hd.err = "EOF" THEN cs
    ELSE IF hd.err # "nil"
      THEN [ctx |-> Fail(SkipTo(cs.ctx, hd.pos), "read strl chunk"),
            stream |-> cs.stream]
    ELSE STRLNext(data, endPos,
           IF SubSeq(hd.out, 1, 4) = STRHChunk
             THEN parseSTRHChunk(data, HeaderSize(hd.out),
                                 SkipTo(cs.ctx, hd.pos), cs.stream)
           ELSE IF SubSeq(hd.out, 1, 4) = STRFChunk
             THEN parseSTRFChunk(data, HeaderSize(hd.out),
                                 SkipTo(cs.ctx, hd.pos), cs.stream)
           ELSE [ctx |-> SkipTo(cs.ctx, Forward(hd.pos, AlignSize(HeaderSize(hd.out)))),
                 stream |-> cs.stream])

parseSTRLLoop(data, endPos, cs) ==
    IF cs.ctx.pos >= endPos THEN cs
    ELSE STRLStep(data, endPos, [cs EXCEPT !.ctx = Visit(@, "strl")],
                  ReadFull(data, cs.ctx.pos, 8))

STRLDone(done) ==
    IF done.ctx.err # "nil" THEN done.ctx
    ELSE [done.ctx EXCEPT !.streams = Append(@, done.stream)]

\* A parseSTRLList that numbers the streams from one.
STRLFrom_IndexFromOne(data, size, ctx, rd1) ==
    IF rd1.err # "nil" THEN Fail(SkipTo(ctx, rd1.pos), "read strl type")
    ELSE IF rd1.out # STRLList
      THEN SkipTo(ctx, Forward(rd1.pos, AlignSize(size - 4)))
    ELSE STRLDone(parseSTRLLoop(data, Forward(rd1.pos, size - 4),
                    [ctx |-> SkipTo(ctx, rd1.pos),
                     stream |-> [Index |-> Len(ctx.streams) + 1, Type |-> "",
                                 Codec |-> ZeroCodec]]))

STRLFrom(data, size, ctx, rd1) ==
    IF rd1.err # "nil" THEN Fail(SkipTo(ctx, rd1.pos), "read strl type")
    ELSE IF rd1.out # STRLList
      THEN SkipTo(ctx, Forward(rd1.pos, AlignSize(size - 4)))
    ELSE STRLDone(parseSTRLLoop(data, Forward(rd1.pos, size - 4),
                    [ctx |-> SkipTo(ctx, rd1.pos),
                     stream |-> [Index |-> Len(ctx.streams), Type |-> "",
                                 Codec |-> ZeroCodec]]))

parseSTRLList(data, size, ctx) == STRLFrom(data, size, ctx, ReadFull(data, ctx.pos, 4))

RECURSIVE parseHDRLLoop(_, _, _)
HDRLNext(data, endPos, next) ==
    IF next.err # "nil" THEN next ELSE parseHDRLLoop(data, endPos, next)

HDRLStep(data, endPos, ctx, hd) ==
    IF hd.err = "EOF" THEN ctx
    ELSE IF hd.err # "nil" THEN Fail(SkipTo(ctx, hd.pos), "read hdrl chunk")
    ELSE HDRLNext(data, endPos,
           IF SubSeq(hd.out, 1, 4) = AVIHChunk
             THEN parseAVIHChunk(data, HeaderSize(hd.out), SkipTo(ctx, hd.pos))
           ELSE IF SubSeq(hd.out, 1, 4) = LISTSignature
             THEN parseSTRLList(data, HeaderSize(hd.out), SkipTo(ctx, hd.pos))
           ELSE SkipTo(ctx, Forward(hd.pos, AlignSize(HeaderSize(hd.out)))))

parseHDRLLoop(data, endPos, ctx) ==
    IF ctx.pos >= endPos THEN ctx
    ELSE HDRLStep(data, endPos, Visit(ctx, "hdrl"), ReadFull(data, ctx.pos, 8))

parseHDRLList(data, size, ctx) == parseHDRLLoop(data, Forward(ctx.pos, size), ctx)

\* moviAt is where moviOffset points, counted from the end of the "movi" tag.
\* remainingSize is the uint32 difference size - 4, which wraps below zero.
LISTFrom(data, size, ctx, rd1, moviAt) ==
    IF rd1.err # "nil" THEN Fail(SkipTo(ctx, rd1.pos), "read list type")
    ELSE IF rd1.out = HDRLList
      THEN parseHDRLList(data, size - 4, SkipTo(ctx, rd1.pos))
    ELSE IF rd1.out = MOVIList
      THEN [ctx EXCEPT !.moviOffset = rd1.pos + moviAt,
                       !.pos = Forward(rd1.pos, AlignSize(size - 4))]
    ELSE SkipTo(ctx, Forward(rd1.pos, AlignSize(size - 4)))

\* A list parse that records the position after the "movi" tag.
parseLISTChunk_AfterTag(data, size, ctx) ==
    LISTFrom(data, size, ctx, ReadFull(data, ctx.pos, 4), 0)

\* parseLISTChunk: moviOffset is the position of the "movi" tag itself.
parseLISTChunk(data, size, ctx) ==
    LISTFrom(data, size, ctx, ReadFull(data, ctx.pos, 4), -4)

IndexEntryAt(b) ==
    [ChunkID |-> SubSeq(b, 1, 4), Flags |-> ReadLE32(b, 4),
     Offset |-> ReadLE32(b, 8), Size |-> ReadLE32(b, 12)]

\* The loop of parseIDX1Chunk from entry i (0-based) on; the entries not yet
\* read stay zero.
RECURSIVE parseIDX1Loop(_, _, _, _)
IDX1Step(data, numEntries, i, ctx, rd1) ==
    IF rd1.err # "nil" THEN Fail(SkipTo(ctx, rd1.pos), "read index entry")
    ELSE parseIDX1Loop(data, numEntries, i + 1,
           [ctx EXCEPT !.pos = rd1.pos,
                       !.indexEntries[i + 1] = IndexEntryAt(rd1.out)])

parseIDX1Loop(data, numEntries, i, ctx) ==
    IF i >= numEntries THEN ctx
    ELSE IDX1Step(data, numEntries, i, ctx, ReadFull(data, ctx.pos, 16))

parseIDX1Chunk(data, size, ctx) ==
    LET numEntries == IF size < 0 THEN 268435456 + (size \div 16) ELSE size \div 16
    IN parseIDX1Loop(data, numEntries, 0,
         [ctx EXCEPT !.indexEntries = [k \in 1..numEntries |-> ZeroIndexEntry]])

RECURSIVE parseChunksLoop(_, _, _)
ChunksNext(data, fileSize, next) ==
    IF next.err # "nil" THEN next ELSE parseChunksLoop(data, fileSize, next)

ChunksStep(data, fileSize, ctx, hd) ==
    IF hd.err = "EOF" THEN ctx
    ELSE IF hd.err # "nil" THEN Fail(SkipTo(ctx, hd.pos), "read chunk header")
    ELSE ChunksNext(data, fileSize,
           IF SubSeq(hd.out, 1, 4) = LISTSignature
             THEN parseLISTChunk(data, HeaderSize(hd.out), SkipTo(ctx, hd.pos))
           ELSE IF SubSeq(hd.out, 1, 4) = IDX1Chunk
             THEN parseIDX1Chunk(data, HeaderSize(hd.out), SkipTo(ctx, hd.pos))
           ELSE SkipTo(ctx, Forward(hd.pos, AlignSize(HeaderSize(hd.out)))))

parseChunksLoop(data, fileSize, ctx) ==
    IF ctx.pos >= fileSize - 8 THEN ctx
    ELSE ChunksStep(data, fileSize, Visit(ctx, "chunks"), ReadFull(data, ctx.pos, 8))

\* A parseChunks whose loop runs up to the end of the source.
parseChunks_NoMargin(data, fileSize, ctx) ==
    parseChunksLoop(data, fileSize + 8, SkipTo(ctx, 12))

parseChunks(data, fileSize, ctx) == parseChunksLoop(data, fileSize, SkipTo(ctx, 12))

FileFrom(data, fileSize, ctx, rd1) ==
    IF rd1.err # "nil" THEN Fail(SkipTo(ctx, rd1.pos), "read riff header")
    ELSE IF SubSeq(rd1.out, 1, 4) # RIFFSignature
      THEN Fail(SkipTo(ctx, rd1.pos), "validate riff")
    ELSE IF SubSeq(rd1.out, 9, 12) # AVISignature
      THEN Fail(SkipTo(ctx, rd1.pos), "validate avi")
    ELSE parseChunks(data, fileSize, SkipTo(ctx, rd1.pos))

parseFile(data, fileSize, ctx) == FileFrom(data, fileSize, ctx, ReadFull(data, ctx.pos, 12))

CountType(streams, type) ==
    Cardinality({i \in 1..Len(streams) : streams[i].Type = type})

\* What Open leaves in the Reader, given the Reader as Open set it up and the
\* outcome ctx of the parse.
OpenFrom(start, ctx) ==
    IF ctx.err # "nil"
      THEN [rd |-> [start EXCEPT !.pos = ctx.pos, !.moviOffset = ctx.moviOffset,
                                 !.indexEntries = ctx.indexEntries],
            err |-> ctx.err, trail |-> ctx.trail]
      ELSE [rd |-> [start EXCEPT
                      !.pos = ctx.pos, !.moviOffset = ctx.moviOffset,
                      !.indexEntries = ctx.indexEntries,
                      !.streams = ctx.streams,
                      !.fileInfo = <<[FileSize |-> start.fileSize,
                                      Duration |-> ctx.duration,
                                      Streams |-> ctx.streams,
                                      VideoStreams |-> CountType(ctx.streams, StreamTypeVideo),
                                      AudioStreams |-> CountType(ctx.streams, StreamTypeAudio)]>>],
            err |-> "nil", trail |-> ctx.trail]

\* Open(reader, size) on the Reader r, reader being a fresh bytes.Reader over
\* data: the Reader after the call, and the error returned.
ReaderOpen(r, data, size) ==
    OpenFrom([r EXCEPT !.r = "set", !.data = data, !.pos = 0, !.fileSize = size],
             parseFile(data, size, ParseStart([r EXCEPT !.pos = 0])))

\* The stream index ReadAllPackets decodes from a tag: byte arithmetic.
DecodeStreamIndex(chunkID) ==
    ((((chunkID[1] - 48) % 256) * 10) + ((chunkID[2] - 48) % 256)) % 256

\* The number of packets of the given stream and kind among packets.
CountPackets(packets, streamIndex, kind) ==
    Cardinality({k \in 1..Len(packets) :
        packets[k].StreamIndex = streamIndex /\ packets[k].Codec = kind})

Second == 1000000000

\* A ReconstructPacket that counts the earlier packets of the stream, of
\* either kind.
ReconstructPacket_CountStream(r, entry, packets) ==
    LET streamIndex == DecodeStreamIndex(entry.ChunkID)
        chunkType == SubSeq(entry.ChunkID, 3, 4)
        codecType == IF chunkType = TwoCC_wb THEN StreamTypeAudio
                     ELSE StreamTypeVideo
        codec == r.streams[streamIndex + 1].Codec
        count == Cardinality({k \in 1..Len(packets) :
                                packets[k].StreamIndex = streamIndex})
        dts == IF codecType = StreamTypeVideo THEN count ELSE count * 1024
        unit == IF codecType = StreamTypeVideo
                  THEN (IF codec.FPS.num > 0
                          THEN Second \div (codec.FPS.num \div codec.FPS.den)
                          ELSE 0)
                  ELSE (IF codec.SampleRate > 0
                          THEN Second \div codec.SampleRate
                          ELSE 0)
    IN [StreamIndex |-> streamIndex, Codec |-> codecType, Data |-> <<>>,
        PTS |-> dts, DTS |-> dts,
        Duration |-> IF codecType = StreamTypeVideo THEN 1 ELSE 1024,
        Size |-> entry.Size,
        Position |-> entry.Offset + r.moviOffset,
        Flags |-> IF (entry.Flags \div 16) % 2 = 1 THEN "K__" ELSE "___",
        PTSTime |-> dts * unit, DTSTime |-> dts * unit,
        DurationTime |-> IF codecType = StreamTypeVideo THEN unit
                         ELSE 1024 * unit]

\* The packet ReadAllPackets builds for an entry that is not skipped, given
\* the packets built before it. Times are in nanoseconds.
ReconstructPacket(r, entry, packets) ==
    LET streamIndex == DecodeStreamIndex(entry.ChunkID)
        chunkType == SubSeq(entry.ChunkID, 3, 4)
        codecType == IF chunkType = TwoCC_wb THEN StreamTypeAudio
                     ELSE StreamTypeVideo
        codec == r.streams[streamIndex + 1].Codec
        count == CountPackets(packets, streamIndex, codecType)
        dts == IF codecType = StreamTypeVideo THEN count ELSE count * 1024
        unit == IF codecType = StreamTypeVideo
                  THEN (IF codec.FPS.num > 0
                          THEN Second \div (codec.FPS.num \div codec.FPS.den)
                          ELSE 0)
                  ELSE (IF codec.SampleRate > 0
                          THEN Second \div codec.SampleRate
                          ELSE 0)
    IN [StreamIndex |-> streamIndex, Codec |-> codecType, Data |-> <<>>,
        PTS |-> dts, DTS |-> dts,
        Duration |-> IF codecType = StreamTypeVideo THEN 1 ELSE 1024,
        Size |-> entry.Size,
        Position |-> entry.Offset + r.moviOffset,
        Flags |-> IF (entry.Flags \div 16) % 2 = 1 THEN "K__" ELSE "___",
        PTSTime |-> dts * unit, DTSTime |-> dts * unit,
        DurationTime |-> IF codecType = StreamTypeVideo THEN unit
                         ELSE 1024 * unit]

\* A skip test that looks at the stream index only.
SkipsEntry_IndexOnly(r, entry) ==
    DecodeStreamIndex(entry.ChunkID) >= Len(r.streams)

\* An entry ReadAllPackets passes over.
SkipsEntry(r, entry) ==
    \/ DecodeStreamIndex(entry.ChunkID) >= Len(r.streams)
    \/ SubSeq(entry.ChunkID, 3, 4) \notin {TwoCC_dc, TwoCC_db, TwoCC_wb}

\* An entry on which ReadAllPackets divides by zero: a video entry of a
\* stream whose frame rate is positive and below one.
FaultsOnEntry(r, entry) ==
    /\ ~SkipsEntry(r, entry)
    /\ SubSeq(entry.ChunkID, 3, 4) # TwoCC_wb
    /\ LET fps == r.streams[DecodeStreamIndex(entry.ChunkID) + 1].Codec.FPS
       IN fps.num > 0 /\ fps.num \div fps.den = 0

\* A loop step that puts the new packet in front of the earlier ones.
ReadAllStep_Prepend(r, entry, before) ==
    IF before.panic THEN before
    ELSE IF SkipsEntry(r, entry) THEN before
    ELSE IF FaultsOnEntry(r, entry) THEN [packets |-> before.packets, panic |-> TRUE]
    ELSE [packets |-> <<ReconstructPacket(r, entry, before.packets)>>
                        \o before.packets,
          panic |-> FALSE]

\* The loop of ReadAllPackets over the first n entries.
ReadAllStep(r, entry, before) ==
    IF before.panic THEN before
    ELSE IF SkipsEntry(r, entry) THEN before
    ELSE IF FaultsOnEntry(r, entry) THEN [packets |-> before.packets, panic |-> TRUE]
    ELSE [packets |-> Append(before.packets,
                             ReconstructPacket(r, entry, before.packets)),
          panic |-> FALSE]

RECURSIVE readAllPacketsLoop(_, _)
readAllPacketsLoop(r, n) ==
    IF n = 0 THEN [packets |-> <<>>, panic |-> FALSE]
    ELSE ReadAllStep(r, r.indexEntries[n], readAllPacketsLoop(r, n - 1))

\* A ReadAllPackets that numbers packets over all streams together.
ReadAllPackets_GlobalCount(r) ==
    IF Len(r.indexEntries) = 0
      THEN [packets |-> <<>>, err |-> "no index entries found", panic |-> FALSE]
      ELSE LET res == readAllPacketsLoop(r, Len(r.indexEntries))
           IN [packets |-> [k \in 1..Len(res.packets) |->
                              [res.packets[k] EXCEPT
                                 !.DTS = (k - 1) * res.packets[k].Duration,
                                 !.PTS = (k - 1) * res.packets[k].Duration]],
               err |-> "nil", panic |-> res.panic]

ReadAllPackets(r) ==
    IF Len(r.indexEntries) = 0
      THEN [packets |-> <<>>, err |-> "no index entries found", panic |-> FALSE]
      ELSE LET res == readAllPacketsLoop(r, Len(r.indexEntries))
           IN [packets |-> res.packets, err |-> "nil", panic |-> res.panic]

GetFileInfo(r) ==
    IF r.fileInfo = <<>> THEN [ret |-> <<>>, err |-> "file not opened"]
    ELSE [ret |-> r.fileInfo, err |-> "nil"]

GetStreams(r) ==
    IF r.streams = <<>> THEN [ret |-> <<>>, err |-> "file not opened"]
    ELSE [ret |-> r.streams, err |-> "nil"]

\* A ReadPacketData without the bounds check.
ReadPacketData_NoBounds(r, position) ==
    IF r.r = "nil" THEN [data |-> <<>>, err |-> "file not open", pos |-> r.pos]
    ELSE IF position < 0
      THEN [data |-> <<>>, err |-> "seek to packet", pos |-> r.pos]
    ELSE LET hd == ReadFull(r.data, position, 8)
             dataSize == ReadLE32(hd.out, 4)
             body == ReadFull(r.data, hd.pos, dataSize)
         IN IF hd.err # "nil"
              THEN [data |-> <<>>, err |-> "read packet header", pos |-> hd.pos]
            ELSE IF body.err # "nil"
              THEN [data |-> body.out, err |-> "read packet data", pos |-> body.pos]
            ELSE [data |-> body.out, err |-> "nil", pos |-> r.pos]

\* ReadPacketData for a packet at the given Position: the data and error
\* returned, and the source's cursor on return. Only the successful return
\* seeks back to the cursor saved on entry.
ReadPacketData(r, position) ==
    IF r.r = "nil" THEN [data |-> <<>>, err |-> "file not open", pos |-> r.pos]
    ELSE IF position < 0
      THEN [data |-> <<>>, err |-> "seek to packet", pos |-> r.pos]
    ELSE LET hd == ReadFull(r.data, position, 8)
             dataSize == ReadLE32(hd.out, 4)
             body == ReadFull(r.data, hd.pos, dataSize)
         IN IF hd.err # "nil"
              THEN [data |-> <<>>, err |-> "read packet header", pos |-> hd.pos]
            ELSE IF hd.pos + dataSize > r.fileSize
              THEN [data |-> <<>>, err |-> "beyond file bounds", pos |-> hd.pos]
            ELSE IF body.err # "nil"
              THEN [data |-> <<>>, err |-> "read packet data", pos |-> body.pos]
            ELSE [data |-> body.out, err |-> "nil", pos |-> r.pos]

\* ------------------------------------------------------ Writer calls
\* wLast records the last call made on the Writer: its name, the stream index
\* of the packet handed to WritePacket, what it returned, whether it ended in
\* a runtime panic, and how many Finalize calls ran since the last Create.
NoWriterCall == [op |-> "none", index |-> 0, err |-> "nil", ret |-> 0,
                 panic |-> FALSE, finalizes |-> 0]

WriterCall(op, err, ret) ==
    [op |-> op, index |-> 0, err |-> err, ret |-> ret, panic |-> FALSE,
     finalizes |-> wLast.finalizes]

\* Create(writer): the writer is a fresh SeekableBuffer, or nil.
Create(writer) ==
    /\ ~wLast.panic
    /\ wr' = [w |-> writer, streams |-> <<>>, packets |-> <<>>]
    /\ sink' = NewSeekableBuffer
    /\ wLast' = [WriterCall("Create", "nil", 0) EXCEPT !.finalizes = 0]
    /\ UNCHANGED <<bufVars, readerVars>>

\* An AddStream that works without a sink.
AddStream_NoSinkCheck(codec) ==
    /\ ~wLast.panic
    /\ wr' = [wr EXCEPT !.streams =
                Append(@, [Index |-> Len(wr.streams), Type |-> codec.Type,
                           Codec |-> codec])]
    /\ wLast' = WriterCall("AddStream", "nil", Len(wr.streams))
    /\ UNCHANGED <<sink, bufVars, readerVars>>

AddStream(codec) ==
    /\ ~wLast.panic
    /\ IF wr.w = "nil"
         THEN /\ wLast' = WriterCall("AddStream", "file not created", -1)
              /\ UNCHANGED wr
         ELSE /\ wr' = [wr EXCEPT !.streams =
                          Append(@, [Index |-> Len(wr.streams), Type |-> codec.Type,
                                     Codec |-> codec])]
              /\ wLast' = WriterCall("AddStream", "nil", Len(wr.streams))
    /\ UNCHANGED <<sink, bufVars, readerVars>>

WritePacket(packet) ==
    /\ ~wLast.panic
    /\ IF wr.w = "nil"
         THEN /\ wLast' = [WriterCall("WritePacket", "file not created", 0)
                             EXCEPT !.index = packet.StreamIndex]
              /\ UNCHANGED wr
       ELSE IF packet.StreamIndex >= Len(wr.streams)
         THEN /\ wLast' = [WriterCall("WritePacket", "invalid stream index", 0)
                             EXCEPT !.index = packet.StreamIndex]
              /\ UNCHANGED wr
       ELSE /\ wr' = [wr EXCEPT !.packets = Append(@, packet)]
            /\ wLast' = [WriterCall("WritePacket", "nil", 0)
                           EXCEPT !.index = packet.StreamIndex]
    /\ UNCHANGED <<sink, bufVars, readerVars>>

\* Finalize writes the container at the sink's cursor. A panic part-way
\* leaves in the sink what was written before it.
Finalize ==
    /\ ~wLast.panic
    /\ IF wr.w = "nil"
         THEN /\ wLast' = WriterCall("Finalize", "file not created", 0)
              /\ UNCHANGED sink
         ELSE \E res \in {writeAVIFile(wr)} :
                /\ sink' = WriteAll(sink, res.writes, 1, Len(res.writes)).sb
                /\ wLast' = [WriterCall("Finalize",
                                        WriteAll(sink, res.writes, 1, Len(res.writes)).err,
                                        0) EXCEPT
                               !.panic = res.panic,
                               !.finalizes = wLast.finalizes + 1]
    /\ UNCHANGED <<wr, bufVars, readerVars>>

\* ------------------------------------------------------ Reader calls
\* rLast records the last call made on the Reader: its name, what it
\* returned, the Position handed to ReadPacketData, the source's cursor when
\* the call was made, and whether the call ended in a runtime panic.
NoReaderCall == [op |-> "none", err |-> "nil", ret |-> <<>>, position |-> 0,
                 data |-> <<>>, entryPos |-> 0, panic |-> FALSE, trail |-> <<>>]

\* Open on a fresh bytes.Reader over the sink's bytes, with their length.
Open ==
    /\ ~rLast.panic
    /\ \E res \in {ReaderOpen(rd, SeekableBuffer_Bytes(sink), SeekableBuffer_Len(sink))} :
         /\ rd' = res.rd
         /\ rLast' = [NoReaderCall EXCEPT !.op = "Open", !.err = res.err,
                                          !.trail = res.trail]
    /\ pkts' = <<>>
    /\ UNCHANGED <<bufVars, writerVars>>

GetFileInfoCall ==
    /\ ~rLast.panic
    /\ rLast' = [NoReaderCall EXCEPT !.op = "GetFileInfo",
                                     !.err = GetFileInfo(rd).err,
                                     !.ret = GetFileInfo(rd).ret]
    /\ UNCHANGED <<rd, pkts, bufVars, writerVars>>

GetStreamsCall ==
    /\ ~rLast.panic
    /\ rLast' = [NoReaderCall EXCEPT !.op = "GetStreams",
                                     !.err = GetStreams(rd).err,
                                     !.ret = GetStreams(rd).ret]
    /\ UNCHANGED <<rd, pkts, bufVars, writerVars>>

ReadAllPacketsCall ==
    /\ ~rLast.panic
    /\ \E res \in {ReadAllPackets(rd)} :
         /\ pkts' = res.packets
         /\ rLast' = [NoReaderCall EXCEPT !.op = "ReadAllPackets", !.err = res.err,
                                          !.panic = res.panic]
    /\ UNCHANGED <<rd, bufVars, writerVars>>

ReadPacketDataCall(position) ==
    /\ ~rLast.panic
    /\ \E res \in {ReadPacketData(rd, position)} :
         /\ rd' = [rd EXCEPT !.pos = res.pos]
         /\ rLast' = [NoReaderCall EXCEPT !.op = "ReadPacketData", !.err = res.err,
                                          !.position = position, !.data = res.data,
                                          !.entryPos = rd.pos]
    /\ UNCHANGED <<pkts, bufVars, writerVars>>

\* ------------------------------------------------------------ the inputs
VideoCodec(fourcc, width, height, num, den) ==
    [Name |-> "video", FourCC |-> fourcc, Type |-> StreamTypeVideo,
     Width |-> width, Height |-> height, FPS |-> [num |-> num, den |-> den],
     Channels |-> 0, SampleRate |-> 0, BitDepth |-> 0]

AudioCodec(fourcc, channels, sampleRate, bitDepth) ==
    [Name |-> "audio", FourCC |-> fourcc, Type |-> StreamTypeAudio,
     Width |-> 0, Height |-> 0, FPS |-> [num |-> 0, den |-> 1],
     Channels |-> channels, SampleRate |-> sampleRate, BitDepth |-> bitDepth]

FourCC_MJPG == <<77, 74, 80, 71>>

\* The codecs handed to AddStream: video at 30 frames per second, video at
\* one frame every two seconds, and audio.
Codecs == {VideoCodec(FourCC_MJPG, 640, 480, 30, 1),
           VideoCodec(FourCC_MJPG, 320, 240, 1, 2),
           AudioCodec(Zeros(4), 2, 44100, 16)}

\* A packet as a caller fills it in: the timestamps follow the tick
\* convention of its stream (frames for video, 1024 samples per audio packet).
SamplesPerPacket == 1024

CallerPacket(streamIndex, type, seqNo, flags, data) ==
    [StreamIndex |-> streamIndex, Codec |-> type, Data |-> data,
     PTS |-> seqNo * (IF type = StreamTypeAudio THEN SamplesPerPacket ELSE 1),
     DTS |-> seqNo * (IF type = StreamTypeAudio THEN SamplesPerPacket ELSE 1),
     Duration |-> IF type = StreamTypeAudio THEN SamplesPerPacket ELSE 1,
     Size |-> Len(data), Position |-> 0,
     Flags |-> flags, PTSTime |-> 0, DTSTime |-> 0, DurationTime |-> 0]

\* Payloads with their keyframe flags: empty, odd-length and even-length.
FlaggedPayloads == {<<"K__", <<7>>>>, <<"___", <<>>>>, <<"___", <<8, 9>>>>}

\* The packets a caller may hand to WritePacket in the current state: for a
\* declared stream, the next packet of that stream; for an undeclared index,
\* a video packet.
PacketInputs(indices, flagged) ==
    {CallerPacket(si,
                  IF IsDeclared(wr, si) THEN wr.streams[si + 1].Type
                  ELSE StreamTypeVideo,
                  Cardinality({k \in 1..Len(wr.packets) :
                                  wr.packets[k].StreamIndex = si}),
                  fd[1], fd[2]) :
        si \in indices, fd \in flagged}

\* The positions handed to ReadPacketData: those of the packets reconstructed
\* last, and positions before, at and near the end of the source.
PositionInputs ==
    {pkts[k].Position : k \in 1..Len(pkts)}
      \cup {-1, rd.fileSize - 16, rd.fileSize - 4, rd.fileSize}

\* ------------------------------------------- the buffer under direct use
\* The byte slices handed to Write, the offsets and origins handed to Seek,
\* and the slice lengths handed to Read.
WriteInputs == {<<>>, <<1>>, <<2, 1>>, <<1, 2, 2>>}

SeekOffsets == {-2, -1, 0, 1, 2, 3}

SeekWhences == {SeekStart, SeekCurrent, SeekEnd, 3}

ReadLens == {0, 1, 2}

NoCall == [op |-> "none", pre |-> NewSeekableBuffer, p |-> <<>>, offset |-> 0,
           whence |-> 0, n |-> 0, ret |-> 0, err |-> "nil", out |-> <<>>,
           preGapLo |-> -1, preGapHi |-> -1, gapLo |-> -1, gapHi |-> -1]

\* Nothing created, opened or called yet.
Init ==
    /\ sb = NewSeekableBuffer
    /\ sbLast = NoCall
    /\ wr = NewMuxer
    /\ sink = NewSeekableBuffer
    /\ wLast = NoWriterCall
    /\ rd = NewDemuxer
    /\ rLast = NoReaderCall
    /\ pkts = <<>>

\* sbLast.gapLo, sbLast.gapHi: the region [gapLo, gapHi) that the most recent
\* Seek past the end skipped, while nothing has been written since (-1 when
\* there is none); preGapLo, preGapHi: the same, as of the state the call was
\* made in.
BufWrite ==
    /\ \E p \in WriteInputs :
         /\ sb.pos + Len(p) <= MaxBufLen
         /\ \E res \in {SeekableBuffer_Write(sb, p)} :
              /\ sb' = res.sb
              /\ sbLast' = [NoCall EXCEPT !.op = "Write", !.pre = sb, !.p = p,
                                          !.n = res.n, !.err = res.err,
                                          !.preGapLo = sbLast.gapLo,
                                          !.preGapHi = sbLast.gapHi]
    /\ UNCHANGED <<writerVars, readerVars>>

BufSeek ==
    /\ \E offset \in SeekOffsets, whence \in SeekWhences :
         \E res \in {SeekableBuffer_Seek(sb, offset, whence)} :
           /\ res.ret <= MaxBufLen
           /\ sb' = res.sb
           /\ sbLast' = [NoCall EXCEPT !.op = "Seek", !.pre = sb, !.offset = offset,
                                       !.whence = whence, !.ret = res.ret,
                                       !.err = res.err,
                                       !.preGapLo = sbLast.gapLo,
                                       !.preGapHi = sbLast.gapHi,
                                       !.gapLo = IF res.err = "nil" /\ res.ret > Len(sb.buf)
                                                   THEN Len(sb.buf) ELSE sbLast.gapLo,
                                       !.gapHi = IF res.err = "nil" /\ res.ret > Len(sb.buf)
                                                   THEN res.ret ELSE sbLast.gapHi]
    /\ UNCHANGED <<writerVars, readerVars>>

BufRead ==
    /\ \E n \in ReadLens :
         \E res \in {SeekableBuffer_Read(sb, n)} :
           /\ sb' = res.sb
           /\ sbLast' = [NoCall EXCEPT !.op = "Read", !.pre = sb, !.offset = n,
                                       !.n = res.n, !.err = res.err, !.out = res.out,
                                       !.preGapLo = sbLast.gapLo,
                                       !.preGapHi = sbLast.gapHi,
                                       !.gapLo = sbLast.gapLo,
                                       !.gapHi = sbLast.gapHi]
    /\ UNCHANGED <<writerVars, readerVars>>

BufReset ==
    /\ sb' = SeekableBuffer_Reset(sb)
    /\ sbLast' = [NoCall EXCEPT !.op = "Reset", !.pre = sb]
    /\ UNCHANGED <<writerVars, readerVars>>

NextBuf == BufWrite \/ BufSeek \/ BufRead \/ BufReset

SpecBuf == Init /\ [][NextBuf]_vars

\* ------------------------------------------------- the Writer in any order
\* Any Writer call in any state, with or without a sink, with declared and
\* undeclared stream indices.
OrderCreate == \E writer \in {"nil", "set"} : Create(writer)

OrderAddStream ==
    /\ Len(wr.streams) < MaxStreams
    /\ \E codec \in Codecs : AddStream(codec)

OrderWritePacket ==
    /\ Len(wr.packets) < MaxPackets
    /\ \E packet \in PacketInputs(-1..MaxStreams, {<<"K__", <<7>>>>}) :
         WritePacket(packet)

OrderFinalize ==
    /\ wLast.finalizes < MaxFinalize
    /\ Finalize

NextOrder == OrderCreate \/ OrderAddStream \/ OrderWritePacket \/ OrderFinalize

SpecOrder == Init /\ [][NextOrder]_vars

\* ------------------------------- the Writer in order, then the Reader
\* A container is written in the order the API documents, opened with its
\* actual length, and read.
TripCreate ==
    /\ wr.w = "nil"
    /\ Create("set")

TripAddStream ==
    /\ wr.w = "set"
    /\ Len(wr.packets) = 0
    /\ wLast.finalizes = 0
    /\ Len(wr.streams) < MaxStreams
    /\ \E codec \in Codecs : AddStream(codec)

TripWritePacket ==
    /\ wr.w = "set"
    /\ wLast.finalizes = 0
    /\ Len(wr.packets) < MaxPackets
    /\ \E packet \in PacketInputs(0..(Len(wr.streams) - 1), FlaggedPayloads) :
         WritePacket(packet)

TripFinalize ==
    /\ wr.w = "set"
    /\ wLast.finalizes = 0
    /\ Finalize

TripOpen ==
    /\ wLast.finalizes = 1
    /\ rd.r = "nil"
    /\ Open

TripGetFileInfo ==
    /\ rLast.op = "Open"
    /\ GetFileInfoCall

TripGetStreams ==
    /\ rLast.op = "Open"
    /\ GetStreamsCall

TripReadAllPackets ==
    /\ rLast.op \in {"Open", "GetFileInfo", "GetStreams"}
    /\ ReadAllPacketsCall

TripReadPacketData ==
    /\ rLast.op \in {"ReadAllPackets", "ReadPacketData"}
    /\ rLast.err = "nil"
    /\ \E position \in PositionInputs : ReadPacketDataCall(position)

Next ==
    \/ TripCreate
    \/ TripAddStream
    \/ TripWritePacket
    \/ TripFinalize
    \/ TripOpen
    \/ TripGetFileInfo
    \/ TripGetStreams
    \/ TripReadAllPackets
    \/ TripReadPacketData

Spec == Init /\ [][Next]_vars

\* ----------------------------------------- the full-workflow scenario
\* One video and one audio stream, ScenarioFrames packets of each written
\* interleaved (video first, the first video packet a keyframe), Finalize,
\* Open, then GetFileInfo and ReadAllPackets. The payloads vary.
ScenarioFrames == 5

ScenarioPayloads == {<<7>>, <<8, 9>>}

ScenarioCreate ==
    /\ wr.w = "nil"
    /\ Create("set")

ScenarioAddVideo ==
    /\ wr.w = "set"
    /\ Len(wr.streams) = 0
    /\ AddStream(VideoCodec(FourCC_MJPG, 640, 480, 30, 1))

ScenarioAddAudio ==
    /\ wr.w = "set"
    /\ Len(wr.streams) = 1
    /\ AddStream(AudioCodec(Zeros(4), 2, 44100, 16))

ScenarioWriteVideo ==
    /\ Len(wr.streams) = 2
    /\ wLast.finalizes = 0
    /\ Len(wr.packets) < 2 * ScenarioFrames
    /\ Len(wr.packets) % 2 = 0
    /\ \E data \in ScenarioPayloads :
         WritePacket(CallerPacket(0, StreamTypeVideo, Len(wr.packets) \div 2,
                                  IF Len(wr.packets) = 0 THEN "K__" ELSE "___",
                                  data))

ScenarioWriteAudio ==
    /\ Len(wr.streams) = 2
    /\ wLast.finalizes = 0
    /\ Len(wr.packets) % 2 = 1
    /\ \E data \in ScenarioPayloads :
         WritePacket(CallerPacket(1, StreamTypeAudio, Len(wr.packets) \div 2,
                                  "K__", data))

ScenarioFinalize ==
    /\ Len(wr.packets) = 2 * ScenarioFrames
    /\ wLast.finalizes = 0
    /\ Finalize

ScenarioOpen ==
    /\ wLast.finalizes = 1
    /\ rd.r = "nil"
    /\ Open

ScenarioGetFileInfo ==
    /\ rLast.op = "Open"
    /\ GetFileInfoCall

ScenarioReadAllPackets ==
    /\ rLast.op \in {"Open", "GetFileInfo"}
    /\ ReadAllPacketsCall

NextScenario ==
    \/ ScenarioCreate
    \/ ScenarioAddVideo
    \/ ScenarioAddAudio
    \/ ScenarioWriteVideo
    \/ ScenarioWriteAudio
    \/ ScenarioFinalize
    \/ ScenarioOpen
    \/ ScenarioGetFileInfo
    \/ ScenarioReadAllPackets

SpecScenario == Init /\ [][NextScenario]_vars

\* ------------------------------------- containers as a Reader may meet them
\* An emitted container, as it is or with one field overwritten in the sink
\* (Seek from the start, then Write), opened in whole or cut short,
\* any number of times on the same Reader, with the Reader's getters called
\* in any state. The streams are video at 30 frames per second and audio in
\* alternation, the packets one-byte keyframes.
\* The overwritten fields: the outer signature, the outer sub-type, the tag
\* of the index chunk, and the tag of an index entry, which becomes one with
\* an unknown subtype ("00xx"), one of an undeclared stream ("09dc"), an
\* audio tag on stream 0 ("00wb") or one without digits ("/:dc"); and
\* declared sizes: that of the main header (57, 40, the maximum), of the
\* header list (0, the maximum), of the payload list (3, 0), and of the index
\* chunk together with its tag (an unknown chunk of the maximum size or 0).
FileAddStream ==
    /\ wr.w = "set"
    /\ Len(wr.packets) = 0
    /\ wLast.finalizes = 0
    /\ Len(wr.streams) < MaxStreams
    /\ \E codec \in {VideoCodec(FourCC_MJPG, 640, 480, 30, 1),
                      AudioCodec(Zeros(4), 2, 44100, 16)} :
         /\ Len(wr.streams) > 0 => codec.Type # wr.streams[Len(wr.streams)].Type
         /\ AddStream(codec)

FileWritePacket ==
    /\ wr.w = "set"
    /\ wLast.finalizes = 0
    /\ Len(wr.packets) < MaxPackets
    /\ \E packet \in PacketInputs(0..(Len(wr.streams) - 1), {<<"K__", <<7>>>>}) :
         WritePacket(packet)

FilePatch ==
    /\ wLast.finalizes = 1
    /\ sink.pos = Len(sink.buf)
    /\ \E patch \in {<<0, <<82, 73, 70, 88>>>>, <<8, <<87, 65, 86, 69>>>>,
                     <<Len(sink.buf) - 8 - (16 * Len(wr.packets)), <<74, 85, 78, 75>>>>}
                    \cup {<<Len(sink.buf) - (16 * k), tag>> :
                            k \in 1..Len(wr.packets),
                            tag \in {<<48, 48, 120, 120>>, <<48, 57, 100, 99>>,
                                     <<48, 48, 119, 98>>, <<47, 58, 100, 99>>}}
                    \cup {<<28, <<57, 0, 0, 0>>>>, <<28, <<40, 0, 0, 0>>>>,
                          <<28, <<255, 255, 255, 255>>>>,
                          <<16, <<0, 0, 0, 0>>>>, <<16, <<255, 255, 255, 255>>>>}
                    \cup {<<Len(sink.buf) - 12 - (16 * Len(wr.packets))
                              - calculateMOVISize(wr), size>> :
                            size \in {<<3, 0, 0, 0>>, <<0, 0, 0, 0>>}}
                    \cup {<<Len(sink.buf) - 8 - (16 * Len(wr.packets)),
                            <<74, 85, 78, 75>> \o size>> :
                            size \in {<<255, 255, 255, 255>>, <<0, 0, 0, 0>>}} :
         sink' = SeekableBuffer_Write(
                     SeekableBuffer_Seek(sink, patch[1], SeekStart).sb, patch[2]).sb
    /\ UNCHANGED <<wr, wLast, bufVars, readerVars>>

\* Open on a fresh bytes.Reader over the first n bytes of the sink, with n as
\* the size: all of them, all but the last four, or the first forty.
FileOpen ==
    /\ wLast.finalizes = 1
    /\ ~rLast.panic
    /\ \E n \in {Len(sink.buf), Len(sink.buf) - 4, 40} :
         \E res \in {ReaderOpen(rd, SubSeq(SeekableBuffer_Bytes(sink), 1, n), n)} :
           /\ rd' = res.rd
           /\ rLast' = [NoReaderCall EXCEPT !.op = "Open", !.err = res.err,
                                            !.trail = res.trail]
    /\ pkts' = <<>>
    /\ UNCHANGED <<bufVars, writerVars>>

NextFile ==
    \/ TripCreate
    \/ FileAddStream
    \/ FileWritePacket
    \/ TripFinalize
    \/ FilePatch
    \/ FileOpen
    \/ GetFileInfoCall
    \/ GetStreamsCall
    \/ ReadAllPacketsCall

SpecFile == Init /\ [][NextFile]_vars

\* ------------------------------------------------------------ properties
\* The position a Seek call computes from its arguments and the state it is
\* made in (valid origins only).
SeekTarget(pre, offset, whence) ==
    CASE whence = SeekStart -> offset
      [] whence = SeekCurrent -> pre.pos + offset
      [] whence = SeekEnd -> Len(pre.buf) + offset
      [] OTHER -> 0

\* C1: after Create, AddStream, WritePacket and Finalize in order, Open and
\* ReadAllPackets on the emitted bytes succeed and yield streams equal to the
\* declared ones in kind, codec tag, dimensions and rate, and packets equal to
\* the written ones in stream index, kind, DTS, PTS, duration, size and
\* keyframe flag, in the same order.
C1_RoundTrip ==
    rLast.op = "ReadAllPackets" =>
      /\ ~rLast.panic
      /\ rLast.err = "nil"
      /\ Len(rd.streams) = Len(wr.streams)
      /\ \A i \in 1..Len(wr.streams) :
           LET a == wr.streams[i]
               b == rd.streams[i]
           IN /\ b.Index = a.Index
              /\ b.Type = a.Type
              /\ b.Codec.FourCC = a.Codec.FourCC
              /\ b.Codec.Width = a.Codec.Width
              /\ b.Codec.Height = a.Codec.Height
              /\ b.Codec.FPS.num * a.Codec.FPS.den = a.Codec.FPS.num * b.Codec.FPS.den
              /\ b.Codec.Channels = a.Codec.Channels
              /\ b.Codec.SampleRate = a.Codec.SampleRate
              /\ b.Codec.BitDepth = a.Codec.BitDepth
      /\ Len(pkts) = Len(wr.packets)
      /\ \A k \in 1..Len(wr.packets) :
           LET a == wr.packets[k]
               b == pkts[k]
           IN /\ b.StreamIndex = a.StreamIndex
              /\ b.Codec = a.Codec
              /\ b.DTS = a.DTS
              /\ b.PTS = a.PTS
              /\ b.Duration = a.Duration
              /\ b.Size = Len(a.Data)
              /\ b.Flags = a.Flags

\* C2: in the scenario, ReadAllPackets reports exactly five video packets
\* with DTS 0,1,2,3,4 and duration 1, and exactly five audio packets with DTS
\* 0,1024,2048,3072,4096 and duration 1024; the metadata counts one video and
\* one audio stream.
C2_Scenario ==
    /\ rLast.op = "ReadAllPackets" =>
         LET IsVideo(p) == p.Codec = StreamTypeVideo
             IsAudio(p) == p.Codec = StreamTypeAudio
             video == SelectSeq(pkts, IsVideo)
             audio == SelectSeq(pkts, IsAudio)
         IN /\ rLast.err = "nil"
            /\ ~rLast.panic
            /\ Len(pkts) = 10
            /\ [k \in 1..Len(video) |-> video[k].DTS] = <<0, 1, 2, 3, 4>>
            /\ \A k \in 1..Len(video) : video[k].Duration = 1
            /\ [k \in 1..Len(audio) |-> audio[k].DTS] = <<0, 1024, 2048, 3072, 4096>>
            /\ \A k \in 1..Len(audio) : audio[k].Duration = 1024
    /\ rLast.op = "GetFileInfo" =>
         /\ rLast.err = "nil"
         /\ rLast.ret[1].VideoStreams = 1
         /\ rLast.ret[1].AudioStreams = 1

\* C2 witness: the ten packets of the scenario read back, payloads of odd
\* and of even length among them.
C2_Witness ==
    /\ rLast.op = "ReadAllPackets"
    /\ Len(wr.packets) = 10
    /\ Len(pkts) = 10
    /\ pkts[1].Flags = "K__"
    /\ \E k \in 1..10 : pkts[k].Size = 1
    /\ \E k \in 1..10 : pkts[k].Size = 2

\* C3: on every return of ReadPacketData, successful or failed, the source's
\* cursor equals its value when the call was made.
C3_CursorRestored ==
    rLast.op = "ReadPacketData" => rd.pos = rLast.entryPos

\* C4: ReadPacketData for a packet at Position p whose 8-byte header can be
\* read fails with a bounds error and returns no data when p + 8 + declared
\* size exceeds the source length, and otherwise returns exactly the
\* declared-size bytes that follow the header.
C4_BoundsOrData ==
    (/\ rLast.op = "ReadPacketData"
     /\ rLast.position >= 0
     /\ rLast.position + 8 <= Len(rd.data)) =>
      LET p == rLast.position
          size == ReadLE32(rd.data, p + 4)
      IN IF p + 8 + size > rd.fileSize
           THEN /\ rLast.err = "beyond file bounds"
                /\ rLast.data = <<>>
           ELSE /\ rLast.err = "nil"
                /\ rLast.data = SubSeq(rd.data, p + 9, p + 8 + size)

\* C4 witness: a header inside the source that declares more bytes than the
\* source holds after it, in a container that has packets.
C4_Witness ==
    /\ rLast.op = "ReadPacketData"
    /\ Len(pkts) > 0
    /\ rLast.position + 8 <= Len(rd.data)
    /\ rLast.position + 8 + ReadLE32(rd.data, rLast.position + 4) > rd.fileSize
    /\ rLast.err = "beyond file bounds"

\* C5: a Write of n bytes at cursor c into a buffer of length L returns n and
\* moves the cursor to c+n; when c+n <= L it changes exactly bytes [c, c+n) to
\* the written bytes and leaves [0, c), [c+n, L) and the length unchanged; when
\* c < L < c+n it overwrites [c, L) and grows the buffer to c+n.
C5_OverwriteLaw ==
    sbLast.op = "Write" =>
      LET pre == sbLast.pre
          c == pre.pos
          L == Len(pre.buf)
          n == Len(sbLast.p)
      IN /\ sbLast.n = n
         /\ sbLast.err = "nil"
         /\ sb.pos = c + n
         /\ (c + n <= L =>
               /\ Len(sb.buf) = L
               /\ \A i \in 1..L :
                    sb.buf[i] = IF i > c /\ i <= c + n THEN sbLast.p[i - c]
                                ELSE pre.buf[i])
         /\ (c < L /\ c + n > L =>
               /\ Len(sb.buf) = c + n
               /\ \A i \in 1..(c + n) :
                    sb.buf[i] = IF i > c THEN sbLast.p[i - c] ELSE pre.buf[i])

\* C5 witness: a Write strictly inside the content, with bytes before and after.
C5_Witness ==
    /\ sbLast.op = "Write"
    /\ sbLast.pre.pos > 0
    /\ Len(sbLast.p) > 0
    /\ sbLast.pre.pos + Len(sbLast.p) < Len(sbLast.pre.buf)
    /\ \E i \in 1..Len(sbLast.p) : sbLast.p[i] # sbLast.pre.buf[sbLast.pre.pos + i]

\* C6: a Seek to a target c beyond the length L succeeds, keeps [0, L) and
\* makes [L, c) zero; a Write that follows yields length c+n with [c, c+n) the
\* written bytes; a Read positioned inside [L, c) returns zero bytes; a Read
\* with the cursor at the content length returns end-of-data.
C6_GapFillLaw ==
    LET pre == sbLast.pre
        L == Len(pre.buf)
    IN /\ (/\ sbLast.op = "Seek"
           /\ sbLast.whence \in {SeekStart, SeekCurrent, SeekEnd}
           /\ SeekTarget(pre, sbLast.offset, sbLast.whence) > L) =>
             LET c == SeekTarget(pre, sbLast.offset, sbLast.whence)
             IN /\ sbLast.err = "nil"
                /\ sbLast.ret = c
                /\ sb.pos = c
                /\ Len(sb.buf) = c
                /\ \A i \in 1..c : sb.buf[i] = IF i <= L THEN pre.buf[i] ELSE 0
       /\ (/\ sbLast.op = "Write"
           /\ sbLast.preGapLo >= 0
           /\ pre.pos = sbLast.preGapHi) =>
             LET c == sbLast.preGapHi
                 n == Len(sbLast.p)
             IN /\ Len(sb.buf) = c + n
                /\ \A i \in 1..(c + n) :
                     sb.buf[i] = IF i > c THEN sbLast.p[i - c]
                                 ELSE IF i > sbLast.preGapLo THEN 0
                                 ELSE pre.buf[i]
       /\ (/\ sbLast.op = "Read"
           /\ sbLast.preGapLo >= 0
           /\ pre.pos >= sbLast.preGapLo
           /\ pre.pos < sbLast.preGapHi) =>
             /\ sbLast.n = Min(sbLast.offset, sbLast.preGapHi - pre.pos)
             /\ Len(sbLast.out) = sbLast.n
             /\ \A i \in 1..Len(sbLast.out) : sbLast.out[i] = 0
       /\ (sbLast.op = "Read" /\ pre.pos >= L) =>
             /\ sbLast.err = "EOF"
             /\ sbLast.n = 0
             /\ sb = pre

\* C6 witness: a Read of the skipped region that returned bytes, in a buffer
\* that held non-zero content before the Seek.
C6_Witness ==
    /\ sbLast.op = "Read"
    /\ sbLast.preGapLo > 0
    /\ sbLast.pre.pos >= sbLast.preGapLo
    /\ sbLast.pre.pos < sbLast.preGapHi
    /\ sbLast.n > 0
    /\ sbLast.pre.buf[sbLast.preGapLo] # 0

\* C7: a Seek whose computed position is negative, or whose origin is not one
\* of the three, fails and leaves the cursor, the content and the length
\* unchanged.
C7_SeekFails ==
    (/\ sbLast.op = "Seek"
     /\ \/ sbLast.whence \notin {SeekStart, SeekCurrent, SeekEnd}
        \/ SeekTarget(sbLast.pre, sbLast.offset, sbLast.whence) < 0) =>
      /\ sbLast.err # "nil"
      /\ sb = sbLast.pre

\* C7 witness: a Seek relative to the end of a non-empty buffer, from a
\* cursor inside it, to a negative position.
C7_Witness ==
    /\ sbLast.op = "Seek"
    /\ sbLast.whence = SeekEnd
    /\ SeekTarget(sbLast.pre, sbLast.offset, sbLast.whence) < 0
    /\ sbLast.pre.pos > 0
    /\ sbLast.err # "nil"

\* C8: a WritePacket whose stream index was never declared (negative ones
\* included) returns an error and leaves the Writer's packet list, stream
\* list and sink unchanged.
C8_UndeclaredRejected ==
    [][(/\ wLast'.op = "WritePacket"
        /\ ~IsDeclared(wr, wLast'.index)) =>
         (/\ wLast'.err # "nil"
          /\ wr' = wr
          /\ sink' = sink)]_vars

\* C9: on a Writer without a sink, AddStream, WritePacket and Finalize each
\* return an error and change no Writer state; AddStream returns -1.
C9_NoSinkRejects ==
    [][(/\ wr.w = "nil"
        /\ wLast'.op \in {"AddStream", "WritePacket", "Finalize"}) =>
         (/\ wLast'.err # "nil"
          /\ ~wLast'.panic
          /\ wr' = wr
          /\ sink' = sink
          /\ (wLast'.op = "AddStream" => wLast'.ret = -1))]_vars

\* C9 witness: an AddStream on a Writer without a sink, answered with -1.
C9_Witness ==
    /\ wr.w = "nil"
    /\ wLast.op = "AddStream"
    /\ wLast.err = "file not created"
    /\ wLast.ret = -1

\* C10: with a sink established and every buffered packet on a declared
\* stream, an AddStream issued after a WritePacket, and an AddStream,
\* WritePacket or Finalize issued after a Finalize, is rejected with an error
\* and leaves the stream list, the packet list and the sink's contents
\* unchanged.
C10_OrderEnforced ==
    [][(/\ wr.w = "set"
        /\ \A k \in 1..Len(wr.packets) : IsDeclared(wr, wr.packets[k].StreamIndex)
        /\ \/ (wLast'.op = "AddStream" /\ Len(wr.packets) > 0)
           \/ (/\ wLast'.op \in {"AddStream", "WritePacket", "Finalize"}
               /\ wLast.finalizes > 0)) =>
         (/\ wLast'.err # "nil"
          /\ wr'.streams = wr.streams
          /\ wr'.packets = wr.packets
          /\ sink'.buf = sink.buf)]_vars

\* C11: stream indices are dense and zero-based. In the Writer and in the
\* Reader the stream at list position i (from 0) has Index i in every state;
\* a successful AddStream returns the position of the stream it stored; the
\* list GetStreams returns is indexed the same way; and after a successful
\* Open of a source whose header list and main header keep their declared
\* sizes the Reader's streams are the declared ones, in declaration order.
C11_DenseIndices ==
    /\ \A i \in 1..Len(wr.streams) : wr.streams[i].Index = i - 1
    /\ \A i \in 1..Len(rd.streams) : rd.streams[i].Index = i - 1
    /\ (wLast.op = "AddStream" /\ wLast.err = "nil") =>
          /\ wLast.ret = Len(wr.streams) - 1
          /\ wr.streams[Len(wr.streams)].Index = wLast.ret
    /\ (rLast.op = "GetStreams" /\ rLast.err = "nil") =>
          \A i \in 1..Len(rLast.ret) : rLast.ret[i].Index = i - 1
    /\ (/\ rLast.op = "Open"
        /\ rLast.err = "nil"
        /\ ReadLE32Signed(rd.data, 16) = calculateHDRLSize(wr)
        /\ ReadLE32Signed(rd.data, 28) = 56) =>
          /\ Len(rd.streams) = Len(wr.streams)
          /\ \A i \in 1..Len(rd.streams) : rd.streams[i].Type = wr.streams[i].Type

\* C11 witness: two streams declared, the container opened, and the list of
\* two streams returned by GetStreams, the second of another kind than the
\* first.
C11_Witness ==
    /\ Len(wr.streams) = 2
    /\ rLast.op = "GetStreams"
    /\ rLast.err = "nil"
    /\ Len(rLast.ret) = 2
    /\ rLast.ret[2].Index = 1
    /\ rLast.ret[1].Type # rLast.ret[2].Type

\* C12: after Finalize, the size field of the outer header equals the number
\* of bytes emitted after it, the total emitted length minus 8.
C12_OuterSize ==
    (wLast.finalizes = 1 /\ wLast.err = "nil" /\ ~wLast.panic) =>
      ReadLE32(sink.buf, 4) = Len(sink.buf) - 8

\* C13: even-alignment law. In the emitted container the payload chunks tile
\* the region between the payload list's sub-type tag and the index chunk's
\* header, in packet order; the chunk of a packet with payload length L is an
\* 8-byte header whose size field is L, the L payload bytes, and one zero
\* byte exactly when L is odd, so that its body takes AlignSize(L) bytes: L
\* when L is even, L+1 when L is odd.
C13_EvenAlignment ==
    (wLast.finalizes = 1 /\ wLast.err = "nil" /\ ~wLast.panic) =>
      LET n == Len(wr.packets)
          L(k) == Len(wr.packets[k].Data)
          endMovi == Len(sink.buf) - 8 - (16 * n)
          After[k \in 1..(n + 1)] ==
              IF k = n + 1 THEN 0
              ELSE 8 + L(k) + (IF L(k) % 2 = 1 THEN 1 ELSE 0) + After[k + 1]
          start(k) == endMovi - After[k]
      IN /\ SubSeq(sink.buf, endMovi + 1, endMovi + 4) = IDX1Chunk
         /\ SubSeq(sink.buf, start(1) - 3, start(1)) = MOVIList
         /\ SubSeq(sink.buf, start(1) - 11, start(1) - 8) = LISTSignature
         /\ \A k \in 1..n :
              /\ ReadLE32(sink.buf, start(k) + 4) = L(k)
              /\ SubSeq(sink.buf, start(k) + 9, start(k) + 8 + L(k)) = wr.packets[k].Data
              /\ L(k) % 2 = 1 => sink.buf[start(k) + 8 + L(k) + 1] = 0
              /\ AlignSize(L(k)) = IF L(k) % 2 = 0 THEN L(k) ELSE L(k) + 1
              /\ start(k + 1) - (start(k) + 8) = AlignSize(L(k))

\* C13 witness: a container emitted with a payload of odd length followed
\* by one of even length.
C13_Witness ==
    /\ wLast.finalizes = 1
    /\ wLast.err = "nil"
    /\ Len(wr.packets) = 2
    /\ Len(wr.packets[1].Data) = 1
    /\ Len(wr.packets[2].Data) = 2

\* C14: index-order preservation. The sequence ReadAllPackets returns is the
\* subsequence of the index entries that are not skipped, in index-table
\* order: the k-th packet carries the stream index, kind, size and offset of
\* the k-th such entry, whatever the streams, kinds and timestamps are.
C14_IndexOrder ==
    (rLast.op = "ReadAllPackets" /\ rLast.err = "nil" /\ ~rLast.panic) =>
      LET Kept(e) == /\ DecodeStreamIndex(e.ChunkID) < Len(rd.streams)
                     /\ SubSeq(e.ChunkID, 3, 4) \in {TwoCC_dc, TwoCC_db, TwoCC_wb}
          kept == SelectSeq(rd.indexEntries, Kept)
      IN /\ Len(pkts) = Len(kept)
         /\ \A k \in 1..Len(kept) :
              /\ pkts[k].StreamIndex = DecodeStreamIndex(kept[k].ChunkID)
              /\ pkts[k].Codec = IF SubSeq(kept[k].ChunkID, 3, 4) = TwoCC_wb
                                   THEN StreamTypeAudio ELSE StreamTypeVideo
              /\ pkts[k].Size = kept[k].Size
              /\ pkts[k].Position = kept[k].Offset + rd.moviOffset

\* C14 witness: two packets returned, an audio packet of stream 1 before a
\* video packet of stream 0, at increasing offsets.
C14_Witness ==
    /\ rLast.op = "ReadAllPackets"
    /\ rLast.err = "nil"
    /\ Len(pkts) = 2
    /\ pkts[1].StreamIndex = 1
    /\ pkts[1].Codec = StreamTypeAudio
    /\ pkts[2].StreamIndex = 0
    /\ pkts[2].Codec = StreamTypeVideo
    /\ pkts[1].Position < pkts[2].Position

\* C15: timestamp assignment. The packet built from an entry that is not
\* skipped has DTS = PTS = c for video and c * 1024 for audio, c being the
\* number of earlier entries of the table that are not skipped and decode to
\* the same stream index and the same kind, which is also the number of
\* packets of that stream and kind returned before it; Duration is 1 for
\* video and 1024 for audio. Skipped entries count for nothing.
C15_Timestamps ==
    (rLast.op = "ReadAllPackets" /\ rLast.err = "nil" /\ ~rLast.panic) =>
      LET Kept(e) == /\ DecodeStreamIndex(e.ChunkID) < Len(rd.streams)
                     /\ SubSeq(e.ChunkID, 3, 4) \in {TwoCC_dc, TwoCC_db, TwoCC_wb}
          Audio(e) == SubSeq(e.ChunkID, 3, 4) = TwoCC_wb
          kept == SelectSeq(rd.indexEntries, Kept)
      IN /\ Len(pkts) = Len(kept)
         /\ \A k \in 1..Len(pkts) :
              LET c == Cardinality({j \in 1..(k - 1) :
                         /\ DecodeStreamIndex(kept[j].ChunkID)
                              = DecodeStreamIndex(kept[k].ChunkID)
                         /\ Audio(kept[j]) = Audio(kept[k])})
                  seen == Cardinality({j \in 1..(k - 1) :
                            /\ pkts[j].StreamIndex = pkts[k].StreamIndex
                            /\ pkts[j].Codec = pkts[k].Codec})
              IN /\ seen = c
                 /\ pkts[k].PTS = pkts[k].DTS
                 /\ pkts[k].DTS = IF Audio(kept[k]) THEN c * 1024 ELSE c
                 /\ pkts[k].Duration = IF Audio(kept[k]) THEN 1024 ELSE 1

\* C15 witness: two audio packets of one stream returned, the second at
\* 1024 ticks.
C15_Witness ==
    /\ rLast.op = "ReadAllPackets"
    /\ rLast.err = "nil"
    /\ Len(pkts) = 2
    /\ pkts[1].StreamIndex = pkts[2].StreamIndex
    /\ pkts[1].Codec = StreamTypeAudio
    /\ pkts[2].Codec = StreamTypeAudio
    /\ pkts[1].DTS = 0
    /\ pkts[2].DTS = 1024

\* C16: an index entry whose tag does not end in "dc", "db" or "wb", or
\* whose decoded stream index is not below the number of known streams, is
\* omitted silently: ReadAllPackets returns without error, and the packets it
\* returns are those it builds from the table without that entry.
C16_SkippedOmitted ==
    rLast.op = "ReadAllPackets" =>
      \A i \in 1..Len(rd.indexEntries) :
        (\/ SubSeq(rd.indexEntries[i].ChunkID, 3, 4)
              \notin {TwoCC_dc, TwoCC_db, TwoCC_wb}
         \/ DecodeStreamIndex(rd.indexEntries[i].ChunkID) >= Len(rd.streams)) =>
          /\ rLast.err = "nil"
          /\ ~rLast.panic
          /\ pkts = readAllPacketsLoop(
                       [rd EXCEPT !.indexEntries =
                          SubSeq(@, 1, i - 1) \o SubSeq(@, i + 1, Len(@))],
                       Len(rd.indexEntries) - 1).packets

\* C16 witness: a table of two entries read, the first with an unknown
\* subtype, the second reconstructed as the first packet of its stream.
C16_Witness ==
    /\ rLast.op = "ReadAllPackets"
    /\ Len(rd.indexEntries) = 2
    /\ SubSeq(rd.indexEntries[1].ChunkID, 3, 4) = <<120, 120>>
    /\ Len(pkts) = 1
    /\ pkts[1].Position = rd.indexEntries[2].Offset + rd.moviOffset
    /\ pkts[1].DTS = 0

\* C17: ReadAllPackets returns an error exactly when the source opened holds
\* no index chunk; with an index chunk in the source, even one of zero
\* entries, it returns the packet list, possibly empty, without error. The
\* index chunk of an emitted container starts 8 + 16 * (number of packets)
\* bytes before its end.
C17_ErrorIffNoIndex ==
    (rLast.op = "ReadAllPackets" /\ ~rLast.panic) =>
      LET at == Len(rd.data) - 8 - (16 * Len(wr.packets))
          hasIndex == /\ at >= 0
                      /\ SubSeq(rd.data, at + 1, at + 4) = IDX1Chunk
                      /\ ReadLE32(rd.data, at + 4) = 16 * Len(wr.packets)
      IN /\ rLast.err # "nil" <=> ~hasIndex
         /\ hasIndex => Len(pkts) <= Len(wr.packets)

\* C18: GetFileInfo and GetStreams return an error on a Reader on which no
\* Open has succeeded, and called after a successful Open they return their
\* result without error: the metadata of that Open, and its stream list,
\* which is empty when the header list declares no stream.
C18_GettersAfterOpen ==
    [][rLast'.op \in {"GetFileInfo", "GetStreams"} =>
         /\ rd.fileInfo = <<>> => rLast'.err # "nil"
         /\ (rLast.op = "Open" /\ rLast.err = "nil") =>
               /\ rLast'.err = "nil"
               /\ rLast'.op = "GetFileInfo" => rLast'.ret = rd.fileInfo
               /\ rLast'.op = "GetStreams" => rLast'.ret = rd.fileInfo[1].Streams]_vars

\* C19: a failed parse leaves the Reader unusable until re-open. A
\* GetFileInfo, GetStreams or ReadAllPackets called after an Open that
\* returned an error, on a fresh Reader or on one opened before, returns an
\* error.
C19_FailedOpenUnusable ==
    [][(/\ rLast.op = "Open"
        /\ rLast.err # "nil"
        /\ rLast'.op \in {"GetFileInfo", "GetStreams", "ReadAllPackets"}) =>
         rLast'.err # "nil"]_vars

\* C20: in the emitted container every declared size equals the number of
\* body bytes emitted. The per-stream descriptor lists follow the main header
\* chunk one after the other, each a list of sub-type "strl" whose size
\* covers its sub-type tag, a stream header chunk of 56 bytes and a format
\* chunk of 40 bytes (video) or 16 bytes (audio); the last one ends where the
\* header list's declared size ends, and there the payload list's header
\* begins.
C20_DeclaredSizes ==
    (wLast.finalizes = 1 /\ wLast.err = "nil" /\ ~wLast.panic) =>
      LET buf == sink.buf
          n == Len(wr.streams)
          hdrlEnd == 20 + ReadLE32(buf, 16)
          StrlAt[k \in 1..(n + 1)] ==
              IF k = 1 THEN 88
              ELSE StrlAt[k - 1] + 8 + ReadLE32(buf, StrlAt[k - 1] + 4)
          strfSize(k) == IF wr.streams[k].Type = StreamTypeAudio THEN 16 ELSE 40
      IN /\ SubSeq(buf, 13, 16) = LISTSignature
         /\ SubSeq(buf, 21, 24) = HDRLList
         /\ SubSeq(buf, 25, 28) = AVIHChunk
         /\ ReadLE32(buf, 28) = 56
         /\ \A k \in 1..n :
              /\ StrlAt[k] + 92 <= Len(buf)
              /\ SubSeq(buf, StrlAt[k] + 1, StrlAt[k] + 4) = LISTSignature
              /\ SubSeq(buf, StrlAt[k] + 9, StrlAt[k] + 12) = STRLList
              /\ SubSeq(buf, StrlAt[k] + 13, StrlAt[k] + 16) = STRHChunk
              /\ ReadLE32(buf, StrlAt[k] + 16) = 56
              /\ SubSeq(buf, StrlAt[k] + 77, StrlAt[k] + 80) = STRFChunk
              /\ ReadLE32(buf, StrlAt[k] + 80) = strfSize(k)
              /\ ReadLE32(buf, StrlAt[k] + 4) = 4 + (8 + 56) + (8 + strfSize(k))
         /\ StrlAt[n + 1] = hdrlEnd
         /\ hdrlEnd + 12 <= Len(buf)
         /\ SubSeq(buf, hdrlEnd + 1, hdrlEnd + 4) = LISTSignature
         /\ SubSeq(buf, hdrlEnd + 9, hdrlEnd + 12) = MOVIList

\* C21: for each written packet, in WritePacket order, the emitted container
\* holds one payload chunk whose tag is the stream index as two decimal
\* digits followed by "db" for a video stream and the flag "K__", "dc" for a
\* video stream and any other flag, "wb" for an audio stream; the index
\* chunk holds exactly one 16-byte entry per packet, the i-th with the tag of
\* the i-th payload chunk, flags 16 if and only if the packet's flag is
\* "K__", and the unpadded payload length as size.
C21_TagsAndIndex ==
    (wLast.finalizes = 1 /\ wLast.err = "nil" /\ ~wLast.panic) =>
      LET n == Len(wr.packets)
          L(k) == Len(wr.packets[k].Data)
          idx == Len(sink.buf) - 8 - (16 * n)
          After[k \in 1..(n + 1)] ==
              IF k = n + 1 THEN 0
              ELSE 8 + L(k) + (IF L(k) % 2 = 1 THEN 1 ELSE 0) + After[k + 1]
          chunk(k) == idx - After[k]
          entry(k) == idx + 8 + (16 * (k - 1))
          tag(k) ==
              LET si == wr.packets[k].StreamIndex
              IN <<48 + (si \div 10), 48 + (si % 10)>> \o
                 (IF wr.streams[si + 1].Type = StreamTypeAudio THEN <<119, 98>>
                  ELSE IF wr.packets[k].Flags = "K__" THEN <<100, 98>>
                  ELSE <<100, 99>>)
      IN /\ SubSeq(sink.buf, idx + 1, idx + 4) = IDX1Chunk
         /\ ReadLE32(sink.buf, idx + 4) = 16 * n
         /\ SubSeq(sink.buf, chunk(1) - 3, chunk(1)) = MOVIList
         /\ \A k \in 1..n :
              /\ SubSeq(sink.buf, chunk(k) + 1, chunk(k) + 4) = tag(k)
              /\ SubSeq(sink.buf, entry(k) + 1, entry(k) + 4) = tag(k)
              /\ ReadLE32(sink.buf, entry(k) + 4)
                   = IF wr.packets[k].Flags = "K__" THEN 16 ELSE 0
              /\ ReadLE32(sink.buf, entry(k) + 12) = L(k)

\* C21 witness: a container emitted with a video packet that is no
\* keyframe followed by one that is.
C21_Witness ==
    /\ wLast.finalizes = 1
    /\ wLast.err = "nil"
    /\ Len(wr.packets) = 2
    /\ wr.streams[wr.packets[1].StreamIndex + 1].Type = StreamTypeVideo
    /\ wr.packets[1].Flags = "___"
    /\ wr.streams[wr.packets[2].StreamIndex + 1].Type = StreamTypeVideo
    /\ wr.packets[2].Flags = "K__"

\* C29: after any sequence of Write, Seek, Read and Reset on a
\* SeekableBuffer the cursor lies between 0 and the buffer length, so a
\* Write on the append path starts exactly at the end and places its bytes
\* at the cursor; the length never decreases except through Reset.
C29_CursorWithinBuffer ==
    /\ 0 <= sb.pos
    /\ sb.pos <= Len(sb.buf)
    /\ (sbLast.op = "Write" /\ sbLast.pre.pos >= Len(sbLast.pre.buf)) =>
          /\ sbLast.pre.pos = Len(sbLast.pre.buf)
          /\ SubSeq(sb.buf, sbLast.pre.pos + 1, sbLast.pre.pos + Len(sbLast.p)) = sbLast.p
          /\ Len(sb.buf) = sbLast.pre.pos + Len(sbLast.p)
    /\ sbLast.op \in {"Write", "Seek", "Read"} => Len(sb.buf) >= Len(sbLast.pre.buf)

\* C29 witness: a non-empty Write on the append path right after a Seek
\* that zero-filled a gap past the end.
C29_Witness ==
    /\ sbLast.op = "Write"
    /\ Len(sbLast.p) > 0
    /\ sbLast.preGapLo >= 0
    /\ sbLast.preGapHi = sbLast.pre.pos
    /\ sbLast.pre.pos = Len(sbLast.pre.buf)
    /\ sb.pos = Len(sb.buf)

\* C28: for any valid streams and packets finalized into a sink, the i-th
\* index entry's offset is 4 plus the sum over earlier packets of 8 plus the
\* even-padded payload length; after Open on the emitted bytes
\* ReadAllPackets yields the i-th packet with Position equal to the absolute
\* offset of the packet's 8-byte chunk header in the container, and
\* ReadPacketData on it returns exactly the payload of the i-th written
\* packet, without the pad byte.
C28_PayloadRoundTrip ==
    (wLast.finalizes = 1 /\ wLast.err = "nil" /\ ~wLast.panic) =>
      LET n == Len(wr.packets)
          L(k) == Len(wr.packets[k].Data)
          idx == Len(sink.buf) - 8 - (16 * n)
          After[k \in 1..(n + 1)] ==
              IF k = n + 1 THEN 0
              ELSE 8 + L(k) + (IF L(k) % 2 = 1 THEN 1 ELSE 0) + After[k + 1]
          chunk(k) == idx - After[k]
          entry(k) == idx + 8 + (16 * (k - 1))
      IN /\ \A k \in 1..n :
              ReadLE32(sink.buf, entry(k) + 8) = 4 + (After[1] - After[k])
         /\ rLast.op = "ReadAllPackets" =>
              /\ ~rLast.panic
              /\ n > 0 => Len(pkts) = n
              /\ \A k \in 1..n :
                   /\ k <= Len(pkts)
                   /\ pkts[k].Position = chunk(k)
                   /\ ReadPacketData(rd, pkts[k].Position).err = "nil"
                   /\ ReadPacketData(rd, pkts[k].Position).data = wr.packets[k].Data

\* C22 as stated: after a successful Open of an emitted container, the
\* offset recorded for the payload list equals the absolute position
\* immediately after the list's 4-byte sub-type tag (the first payload
\* byte), and every reconstructed packet's Position equals its index entry
\* offset plus the recorded offset.
C22_OffsetAfterTag ==
    (/\ wLast.finalizes = 1
     /\ Len(wr.packets) > 0
     /\ rLast.op \in {"Open", "ReadAllPackets"}
     /\ rLast.err = "nil"
     /\ ~rLast.panic) =>
      LET n == Len(wr.packets)
          L(k) == Len(wr.packets[k].Data)
          idx == Len(sink.buf) - 8 - (16 * n)
          After[k \in 1..(n + 1)] ==
              IF k = n + 1 THEN 0
              ELSE 8 + L(k) + (IF L(k) % 2 = 1 THEN 1 ELSE 0) + After[k + 1]
          firstPayload == idx - After[1]
          entry(k) == idx + 8 + (16 * (k - 1))
      IN /\ SubSeq(rd.data, firstPayload - 3, firstPayload) = MOVIList
         /\ rd.moviOffset = firstPayload
         /\ rLast.op = "ReadAllPackets" =>
              /\ Len(pkts) = n
              /\ \A k \in 1..n :
                   pkts[k].Position = ReadLE32(rd.data, entry(k) + 8) + rd.moviOffset

\* C22 amended: after a successful Open of an emitted container, the
\* offset recorded for the payload list equals the absolute position of the
\* list's 4-byte sub-type tag, four bytes before the first payload byte,
\* and every reconstructed packet's Position equals its index entry offset
\* plus the recorded offset with no further adjustment.
C22_OffsetAtTag ==
    (/\ wLast.finalizes = 1
     /\ Len(wr.packets) > 0
     /\ rLast.op \in {"Open", "ReadAllPackets"}
     /\ rLast.err = "nil"
     /\ ~rLast.panic) =>
      LET n == Len(wr.packets)
          L(k) == Len(wr.packets[k].Data)
          idx == Len(sink.buf) - 8 - (16 * n)
          After[k \in 1..(n + 1)] ==
              IF k = n + 1 THEN 0
              ELSE 8 + L(k) + (IF L(k) % 2 = 1 THEN 1 ELSE 0) + After[k + 1]
          firstPayload == idx - After[1]
          entry(k) == idx + 8 + (16 * (k - 1))
      IN /\ SubSeq(rd.data, firstPayload - 3, firstPayload) = MOVIList
         /\ rd.moviOffset = firstPayload - 4
         /\ rLast.op = "ReadAllPackets" =>
              /\ Len(pkts) = n
              /\ \A k \in 1..n :
                   pkts[k].Position = ReadLE32(rd.data, entry(k) + 8) + rd.moviOffset

\* C22 witness: packets reconstructed from an emitted container with two
\* packets, the recorded offset being where the "movi" tag starts.
C22_Witness ==
    /\ wLast.finalizes = 1
    /\ rLast.op = "ReadAllPackets"
    /\ rLast.err = "nil"
    /\ Len(pkts) = 2
    /\ SubSeq(rd.data, rd.moviOffset + 1, rd.moviOffset + 4) = MOVIList
    /\ pkts[2].Position > pkts[1].Position

\* C24: when the source ends inside the top-level region, the header list
\* or a stream's descriptor block before the region's declared end, at a
\* chunk-header boundary, partway through a chunk header or partway through
\* a chunk body, the loop ends and Open still succeeds with what was
\* collected: Open of a proper prefix of a container that keeps the outer
\* header returns no error.
C24_TruncationTolerated ==
    (/\ rLast.op = "Open"
     /\ rd.fileSize < Len(sink.buf)
     /\ rd.data = SubSeq(sink.buf, 1, rd.fileSize)
     /\ rd.fileSize >= 12
     /\ SubSeq(rd.data, 1, 4) = RIFFSignature
     /\ SubSeq(rd.data, 9, 12) = AVISignature) =>
      /\ rLast.err = "nil"
      /\ ~rLast.panic

\* C26: ReadAllPackets completes without a runtime fault for every stream
\* with a positive rate, frame rates below one frame per second included,
\* and each packet's DurationTime is its Duration converted at the stream's
\* rate (scale/rate seconds per video frame, 1/sampleRate seconds per audio
\* sample), DTSTime = PTSTime its DTS converted at that rate; the three
\* fields are zero when the rate is zero.
C26_WallClock ==
    (rLast.op = "ReadAllPackets" /\ rLast.err = "nil") =>
      /\ ~rLast.panic
      /\ \A k \in 1..Len(pkts) :
           LET codec == rd.streams[pkts[k].StreamIndex + 1].Codec
               unit == IF pkts[k].Codec = StreamTypeVideo
                         THEN (IF codec.FPS.num > 0
                                 THEN ((Second \div codec.FPS.num) * codec.FPS.den)
                                      + (((Second % codec.FPS.num) * codec.FPS.den)
                                           \div codec.FPS.num)
                                 ELSE 0)
                         ELSE (IF codec.SampleRate > 0
                                 THEN Second \div codec.SampleRate
                                 ELSE 0)
           IN /\ pkts[k].DurationTime = pkts[k].Duration * unit
              /\ pkts[k].DTSTime = pkts[k].DTS * unit
              /\ pkts[k].PTSTime = pkts[k].DTSTime

\* C30: after a successful Open of a source on a Reader that had opened
\* another source before, GetFileInfo, GetStreams and ReadAllPackets return
\* exactly what a fresh Reader opened on the same source returns; no index
\* entry or payload-list offset of the earlier source is used.  (States in
\* which the Reader holds the zero-valued entries a failed Open leaves
\* behind are set aside: the earlier Open succeeded.)
C30_ReopenAsFresh ==
    (/\ rLast.op = "Open"
     /\ rLast.err = "nil"
     /\ \A k \in 1..Len(rd.indexEntries) : rd.indexEntries[k].ChunkID # Zeros(4)) =>
      LET fresh == ReaderOpen(NewDemuxer, rd.data, rd.fileSize).rd
      IN /\ GetFileInfo(rd) = GetFileInfo(fresh)
         /\ GetStreams(rd) = GetStreams(fresh)
         /\ ReadAllPackets(rd) = ReadAllPackets(fresh)

\* C27: ReadAllPackets produces a packet from an index entry only when the
\* first two bytes of the entry's tag are ASCII decimal digits d0 d1, and
\* the packet's stream index is then 10*d0 + d1; an entry whose first two
\* tag bytes are not both digits yields no packet.
C27_DigitsOnly ==
    (rLast.op = "ReadAllPackets" /\ rLast.err = "nil" /\ ~rLast.panic) =>
      LET Digit(b) == b \in 48..57
          Index(e) == (10 * (e.ChunkID[1] - 48)) + (e.ChunkID[2] - 48)
          Kept(e) == /\ Digit(e.ChunkID[1])
                     /\ Digit(e.ChunkID[2])
                     /\ Index(e) < Len(rd.streams)
                     /\ SubSeq(e.ChunkID, 3, 4) \in {TwoCC_dc, TwoCC_db, TwoCC_wb}
          kept == SelectSeq(rd.indexEntries, Kept)
      IN /\ Len(pkts) = Len(kept)
         /\ \A k \in 1..Len(pkts) :
              /\ pkts[k].StreamIndex = Index(kept[k])
              /\ pkts[k].Position = kept[k].Offset + rd.moviOffset

\* C23: the walker advances past every non-list chunk by its declared
\* size: whenever a loop of Open reads, at offset p, the header of a chunk
\* that is not a list, with declared size s, and the chunk is processed
\* without error, the cursor after it (where the next iteration of any loop
\* starts, or where Open ends) is p + 8 + s rounded up to even, whether the
\* chunk is skipped or decoded and whatever s is.
C23_AdvanceBySize ==
    rLast.op = "Open" =>
      LET t == rLast.trail
          n == Len(t)
          After(i) == IF i < n THEN t[i + 1][2] ELSE rd.pos
          NonList(i) ==
              /\ t[i][2] + 8 <= Len(rd.data)
              /\ SubSeq(rd.data, t[i][2] + 1, t[i][2] + 4) # LISTSignature
          Declared(i) == HeaderSize(SubSeq(rd.data, t[i][2] + 1, t[i][2] + 8))
      IN \A i \in 1..n :
           (NonList(i) /\ (i < n \/ rLast.err = "nil")) =>
             After(i) = Forward(t[i][2] + 8, AlignSize(Declared(i)))

\* C25: Open terminates on every source and every declared size, 0, list
\* sizes below 4 and the maximum 32-bit value included. Each iteration of
\* the top-level, header-list and descriptor-block loops starts at a cursor
\* strictly past the one where the previous iteration of that loop started,
\* and the cursor never moves back; no iteration starts at or past the end
\* of its region (source length minus 8 at top level, the end the enclosing
\* list declares otherwise); and a parse that ends without error ends with
\* the cursor at the top-level region's end or at the end of the data.
C25_LoopsAdvance ==
    rLast.op = "Open" =>
      LET t == rLast.trail
          n == Len(t)
          Encl(i, loop) ==
              CHOOSE j \in 1..(i - 1) :
                /\ t[j][1] = loop
                /\ \A k \in (j + 1)..(i - 1) : t[k][1] # loop
          ListEnd(j) ==
              Forward(t[j][2] + 12,
                      HeaderSize(SubSeq(rd.data, t[j][2] + 1, t[j][2] + 8)) - 4)
      IN /\ \A i \in 1..n : t[i][2] >= 12 /\ t[i][2] < Far
         /\ \A i \in 1..(n - 1) : t[i][2] <= t[i + 1][2]
         /\ \A i \in 1..n : \A j \in 1..(i - 1) :
              t[i][1] = t[j][1] => t[j][2] < t[i][2]
         /\ \A i \in 1..n :
              CASE t[i][1] = "chunks" -> t[i][2] < rd.fileSize - 8
                [] t[i][1] = "hdrl" ->
                     /\ \E j \in 1..(i - 1) : t[j][1] = "chunks"
                     /\ t[i][2] >= t[Encl(i, "chunks")][2] + 12
                     /\ t[i][2] < ListEnd(Encl(i, "chunks"))
                [] t[i][1] = "strl" ->
                     /\ \E j \in 1..(i - 1) : t[j][1] = "hdrl"
                     /\ t[i][2] >= t[Encl(i, "hdrl")][2] + 12
                     /\ t[i][2] < ListEnd(Encl(i, "hdrl"))
         /\ rLast.err = "nil" =>
              (rd.pos >= rd.fileSize - 8 \/ rd.pos >= Len(rd.data))

\* C25 witness: a successful Open of a source whose header list declares
\* the maximum 32-bit size, in which all three loops iterate and the parse
\* ends at the end of the data.
C25_Witness ==
    /\ rLast.op = "Open"
    /\ rLast.err = "nil"
    /\ Len(rd.data) >= 20
    /\ SubSeq(rd.data, 17, 20) = <<255, 255, 255, 255>>
    /\ \E i \in 1..Len(rLast.trail) : rLast.trail[i][1] = "strl"
    /\ \E i \in 1..Len(rLast.trail) : rLast.trail[i][1] = "chunks"
    /\ rd.pos >= Len(rd.data)

====
